---- MODULE Spec2Model ----
(***************************************************************************)
(* StudyBuddy: the PDF exporter (downloadAnswerAsPdf, htmlToImage), the    *)
(* PDF handlers of AskTab and ExplainTab, the text transformer             *)
(* (processOutputText, processNonTableText, processPdfText) of             *)
(* src/utils/helpers.tsx, and the request handlers of the two tabs         *)
(* (handleSubmit, handleFollowUpSubmit, handleMessageFeedback).            *)
(*                                                                         *)
(* Lengths are in hundredths of a millimetre (jsPDF is created with        *)
(* unit 'mm'); a text is a sequence of one-character strings, and an HTML  *)
(* tag produced by the transformer is one element of such a sequence.      *)
(***************************************************************************)
EXTENDS Integers, Sequences, FiniteSets, TLC

\* ------------------------------------------------------------------ bounds
MaxExports == 1
MaxLines == 44
ImgSlack == 1
MaxSegs == 4
MaxBlocks == 3
MaxCols == 2
MaxRows == 1
MaxPlain == 4
MaxSubmits == 1
MaxTurns == 2
MaxExplains == 2
MaxClock == 6
MaxRuns == 2

\* --------------------------------------------------------- page geometry
\* jsPDF format 'a4', portrait: 297 mm high
pageHeight == 29700
\* const margin = 20
margin == 2000
\* the 40 of maxFirstPageHeight = pageHeight - (margin * 2) - 40
headerReserve == 4000
\* the 30 of margin + 30, where the content starts
contentOffset == 3000
\* setFontSize(11) with lineHeightFactor 1.5: 16.5 pt = 5.82 mm per line
lineHeight == 582

maxFirstPageHeight == pageHeight - (margin * 2) - headerReserve
contentTop == margin + contentOffset
\* how many lines drawn from contentTop have their baseline on the page
LinesThatFit == ((pageHeight - contentTop) \div lineHeight) + 1

VARIABLES exports, started, notification, shown, uncaughtErrors, bodyContainers,
          rawText, nodes, rendered, pdfText, normalized,
          askTab, askRequest, askReaders, feedbackCount,
          explainTab, explainRequest, explainReaders,
          clock, profile, authEvent,
          researchTab, researchRun

exportVars == <<exports, started, notification, shown, uncaughtErrors, bodyContainers>>
textVars == <<rawText, nodes, rendered, pdfText, normalized>>
askVars == <<askTab, askRequest, askReaders, feedbackCount>>
explainVars == <<explainTab, explainRequest, explainReaders>>
authVars == <<clock, profile, authEvent>>
researchVars == <<researchTab, researchRun>>
tabVars == <<askVars, explainVars, authVars, researchVars>>
vars == <<exportVars, textVars, tabVars>>

Export == 1..MaxExports
\* the content of an export is abstracted to the number of lines that
\* splitTextToSize(processPdfText(content), textWidth) yields; 0 is ''
Contents == {0, 1, LinesThatFit} \cup (LinesThatFit + 1 .. MaxLines)
\* a content of null or undefined
NullContent == -1
ImgHeights == (maxFirstPageHeight - ImgSlack) .. (maxFirstPageHeight + ImgSlack)
\* the image of an empty body is the padding of htmlToImage's container:
\* 840 by 40 px, drawn textWidth = 170 mm wide
EmptyImgHeight == (40 * 17000) \div 840
ImgHeightsOf(content) == IF content <= 0 THEN {EmptyImgHeight} ELSE ImgHeights

\* ------------------------------------------------------------ the document
\* new jsPDF({...}): one empty page, nothing drawn, nothing saved
NewDoc(type) ==
  [type |-> type, pages |-> 1, header |-> FALSE, image |-> 0,
   lines |-> << >>, footers |-> << >>, saved |-> 0, log |-> << >>]

NoDoc == NewDoc("none")

\* title, subtitle, date and rule on the first page
AddHeader(doc) ==
  [doc EXCEPT !.header = TRUE, !.log = Append(@, "header")]

\* if (imgHeight <= maxFirstPageHeight)
ImageFits(imgHeight) == imgHeight <= maxFirstPageHeight

\* doc.addImage(contentImage, 'PNG', margin, margin + 30, imgWidth, imgHeight)
AddImage(doc, imgHeight) ==
  [doc EXCEPT !.image = imgHeight, !.log = Append(@, "image")]

\* doc.text(contentLines, margin, margin + 30, { lineHeightFactor: 1.5 }):
\* jsPDF draws line i of the array lineHeight below line i-1 on the current
\* page; it never adds a page, and the exporter never calls addPage
TextPath(doc, nLines) ==
  [doc EXCEPT !.lines = [i \in 1..nLines |->
                           [page |-> doc.pages,
                            y |-> contentTop + (i - 1) * lineHeight]],
              !.log = Append(@, "text")]

\* the footer loop stopping one page early (i < totalPages)
StampFootersStopsEarly(doc) ==
  [doc EXCEPT !.footers = [i \in 1..(doc.pages - 1) |->
                             [page |-> i, index |-> i, total |-> doc.pages]],
              !.log = Append(@, "footers")]

\* for (let i = 1; i <= totalPages; i++) { setPage(i); text('Page i of N') }
StampFooters(doc) ==
  [doc EXCEPT !.footers = [i \in 1..doc.pages |->
                             [page |-> i, index |-> i, total |-> doc.pages]],
              !.log = Append(@, "footers")]

\* doc.save(filename)
SaveDoc(doc) ==
  [doc EXCEPT !.saved = @ + 1, !.log = Append(@, "save")]

\* doc.save called before the footer loop instead of after it
FinishExportSavesFirst(x, fault) ==
  IF fault = "save" THEN [x EXCEPT !.status = "rejected", !.fault = fault]
  ELSE IF fault = "footer"
       THEN [x EXCEPT !.status = "rejected", !.fault = fault,
                      !.doc = SaveDoc(@)]
       ELSE [x EXCEPT !.status = "resolved",
                      !.doc = StampFooters(SaveDoc(@))]

\* lines 589-604: footers, then save; a throw of the document library at
\* either step is caught by the outer catch, which rejects
FinishExport(x, fault) ==
  IF fault = "footer" THEN [x EXCEPT !.status = "rejected", !.fault = fault]
  ELSE IF fault = "save"
       THEN [x EXCEPT !.status = "rejected", !.fault = fault,
                      !.doc = StampFooters(@)]
       ELSE [x EXCEPT !.status = "resolved",
                      !.doc = SaveDoc(StampFooters(@))]

\* the inner try without its catch: the rasterization failure reaches the
\* outer catch, which rejects
TextFallbackRethrows(x, fault) ==
  [x EXCEPT !.status = "rejected", !.fault = fault]

\* lines 577-587: the inner catch draws the normalized text;
\* processPdfText(content) calls content.replace, a TypeError when content
\* is null or undefined, thrown inside the inner catch and so caught by the
\* outer one
TextFallback(x, fault) ==
  IF fault = "text" THEN [x EXCEPT !.status = "rejected", !.fault = fault]
  ELSE IF x.content = NullContent
       THEN [x EXCEPT !.status = "rejected", !.fault = "TypeError"]
       ELSE FinishExport([x EXCEPT !.doc = TextPath(@, x.content)], fault)

IdleExport ==
  [status |-> "idle", content |-> 0, raster |-> "none", imgHeight |-> 0,
   onloadFired |-> FALSE, fault |-> "none", doc |-> NoDoc]

\* lines 510-552, up to the first await: build the document and its header,
\* then htmlToImage appends its container and calls html2canvas
BeginExport(type, content, fault) ==
  IF fault = "setup"
  THEN [IdleExport EXCEPT !.status = "rejected", !.content = content,
                          !.fault = fault]
  ELSE [IdleExport EXCEPT !.status = "rasterizing", !.content = content,
                          !.doc = AddHeader(NewDoc(type))]

\* ------------------------------------------------------ the text transformer
\* Texts are sequences of one-character strings over Alphabet, where a
\* callout marker is one element. Of the replacements of
\* processNonTableText, those whose pattern needs a character outside
\* Alphabet ($, \, _, {, (, &, !, a letter that no unit of the inputs holds)
\* match nowhere in such a text nor in the tags generated from it, and
\* leave it as it is; the others are the operators below, in source order.
\* the backtick character
tick == "tick"
CalloutMarkers == {"[!NOTE]", "[!TIP]", "[!DEFINITION]"}
\* superscript two, superscript three, capital omega, small omega
superTwo == "U+00B2"
superThree == "U+00B3"
capitalOmega == "U+03A9"
smallOmega == "U+03C9"
Alphabet ==
  {"x", "A", "*", tick, "|", "-", "=", "\n", " ", "/", "^", "5", "2", "3",
   "m", "s", "k", "g", "a", "o", "l", "z", "N", "P", "J", "W", "K", "H", "V",
   "C", "T", superTwo, superThree, capitalOmega, "<", ">"}
  \cup CalloutMarkers
\* [a-z] and [A-Z], letter by letter
LowerLetters ==
  <<"a", "b", "c", "d", "e", "f", "g", "h", "i", "j", "k", "l", "m", "n", "o",
    "p", "q", "r", "s", "t", "u", "v", "w", "x", "y", "z">>
UpperLetters ==
  <<"A", "B", "C", "D", "E", "F", "G", "H", "I", "J", "K", "L", "M", "N", "O",
    "P", "Q", "R", "S", "T", "U", "V", "W", "X", "Y", "Z">>
Capitals == {UpperLetters[k] : k \in 1..Len(UpperLetters)}
Lowercase == {LowerLetters[k] : k \in 1..Len(LowerLetters)}
\* \d and \w
Digits == {"0", "1", "2", "3", "4", "5", "6", "7", "8", "9"}
AlphaNumeric == Capitals \cup Lowercase \cup Digits
WordChars == AlphaNumeric \cup {"_"}
Whitespace == {"\n", " "}

Min(S) == CHOOSE m \in S : \A k \in S : m <= k

\* s.indexOf(c, from), 1-based, 0 when absent
IndexOf(s, from, c) ==
  LET S == {j \in from..Len(s) : s[j] = c}
  IN IF S = {} THEN 0 ELSE Min(S)

\* n copies of c start at position i of s
RunAt(s, i, c, n) ==
  /\ i >= 1
  /\ i + n - 1 <= Len(s)
  /\ \A k \in 0..(n - 1) : s[i + k] = c

\* first position >= from where n copies of c start, 0 when absent
IndexOfRun(s, from, c, n) ==
  LET S == {j \in from..Len(s) : RunAt(s, j, c, n)}
  IN IF S = {} THEN 0 ELSE Min(S)

\* '.' of a regular expression without the s flag matches no line break
NoNewline(s, a, b) == \A k \in a..b : s[k] # "\n"

\* String.prototype.trim
RECURSIVE TrimLeft(_)
TrimLeft(s) ==
  IF s # << >> /\ Head(s) \in Whitespace THEN TrimLeft(Tail(s)) ELSE s

RECURSIVE TrimRight(_)
TrimRight(s) ==
  IF s # << >> /\ s[Len(s)] \in Whitespace
  THEN TrimRight(SubSeq(s, 1, Len(s) - 1)) ELSE s

Trim(s) == TrimRight(TrimLeft(s))

\* replace(/\*\*(.*?)\*\*/g, '<strong>$1</strong>')
RECURSIVE ReplaceBold(_, _)
ReplaceBold(s, i) ==
  IF i > Len(s) THEN << >>
  ELSE LET j == IndexOfRun(s, i + 2, "*", 2)
       IN IF RunAt(s, i, "*", 2) /\ j > 0 /\ NoNewline(s, i + 2, j - 1)
          THEN <<"<strong>">> \o SubSeq(s, i + 2, j - 1) \o <<"</strong>">>
                 \o ReplaceBold(s, j + 2)
          ELSE <<s[i]>> \o ReplaceBold(s, i + 1)

\* replace(/\*(.*?)\*/g, '<em>$1</em>')
RECURSIVE ReplaceItalic(_, _)
ReplaceItalic(s, i) ==
  IF i > Len(s) THEN << >>
  ELSE LET j == IndexOf(s, i + 1, "*")
       IN IF s[i] = "*" /\ j > 0 /\ NoNewline(s, i + 1, j - 1)
          THEN <<"<em>">> \o SubSeq(s, i + 1, j - 1) \o <<"</em>">>
                 \o ReplaceItalic(s, j + 1)
          ELSE <<s[i]>> \o ReplaceItalic(s, i + 1)

\* replace(/\|([^|]+)\|/g, '<span class="math-equation">|$1|</span>')
RECURSIVE ReplaceModulus(_, _)
ReplaceModulus(s, i) ==
  IF i > Len(s) THEN << >>
  ELSE LET j == IndexOf(s, i + 1, "|")
       IN IF s[i] = "|" /\ j >= i + 2
          THEN <<"<span class=math-equation>", "|">> \o SubSeq(s, i + 1, j - 1)
                 \o <<"|", "</span>">> \o ReplaceModulus(s, j + 1)
          ELSE <<s[i]>> \o ReplaceModulus(s, i + 1)

\* the length of the [a-z]* that follows position i - 1
RECURSIVE LowercaseRun(_, _)
LowercaseRun(s, i) ==
  IF i <= Len(s) /\ s[i] \in Lowercase THEN 1 + LowercaseRun(s, i + 1) ELSE 0

\* superscript minus and superscript plus
superMinus == "U+207B"
superPlus == "U+207A"

\* the length of the \d* that follows position i - 1
RECURSIVE DigitRun(_, _)
DigitRun(s, i) ==
  IF i <= Len(s) /\ s[i] \in Digits THEN 1 + DigitRun(s, i + 1) ELSE 0

\* ionWithCharge(match, element, num, charge): superNum is num, or '1' when
\* the match has no digits
ionWithCharge(element, num, charge) ==
  <<"<span class=chemical-formula>">> \o element \o <<"<sup>">>
  \o (IF num = << >> THEN <<"1">> ELSE num)
  \o <<IF charge = "+" THEN superPlus ELSE superMinus, "</sup>", "</span>">>

\* replace(/([A-Z][a-z]*)(\d*)([+\-])/g, ionWithCharge)
RECURSIVE ReplaceIon(_, _)
ReplaceIon(s, i) ==
  IF i > Len(s) THEN << >>
  ELSE LET d == i + 1 + LowercaseRun(s, i + 1)
           c == d + DigitRun(s, d)
       IN IF s[i] \in Capitals /\ c <= Len(s) /\ s[c] \in {"+", "-"}
          THEN ionWithCharge(SubSeq(s, i, d - 1), SubSeq(s, d, c - 1), s[c])
                 \o ReplaceIon(s, c + 1)
          ELSE <<s[i]>> \o ReplaceIon(s, i + 1)

\* replace(/([a-zA-Z0-9])\^([a-zA-Z0-9])/g,
\*         '<span class="math-equation">$1<sup>$2</sup></span>')
RECURSIVE ReplaceCaret(_, _)
ReplaceCaret(s, i) ==
  LET S == {p \in i..(Len(s) - 2) : /\ s[p] \in AlphaNumeric
                                    /\ s[p + 1] = "^"
                                    /\ s[p + 2] \in AlphaNumeric}
  IN IF S = {} THEN SubSeq(s, i, Len(s))
     ELSE LET p == Min(S)
          IN SubSeq(s, i, p - 1)
               \o <<"<span class=math-equation>", s[p], "<sup>", s[p + 2],
                    "</sup>", "</span>">>
               \o ReplaceCaret(s, p + 3)

\* where the match of /([A-Z][a-z]*)(\d+)/ that starts at p ends, 0 when
\* none starts there
ElementEnd(s, p) ==
  LET d == p + 1 + LowercaseRun(s, p + 1)
  IN IF s[p] \in Capitals /\ DigitRun(s, d) > 0 THEN d + DigitRun(s, d) - 1
     ELSE 0

\* replace(/([A-Z][a-z]*)(\d+)/g, elementWithSubscript)
RECURSIVE ReplaceElement(_, _)
ReplaceElement(s, i) ==
  LET S == {p \in i..Len(s) : ElementEnd(s, p) > 0}
  IN IF S = {} THEN SubSeq(s, i, Len(s))
     ELSE LET p == Min(S)
              e == ElementEnd(s, p)
              d == p + 1 + LowercaseRun(s, p + 1)
          IN SubSeq(s, i, p - 1) \o <<"<span class=chemical-formula>">>
               \o SubSeq(s, p, d - 1) \o <<"<sub>">> \o SubSeq(s, d, e)
               \o <<"</sub>", "</span>">> \o ReplaceElement(s, e + 1)

\* where the match of /(\^|\^{)(\d+)([A-Z][a-z]*)/ that starts at p ends, 0
\* when none starts there; no text holds a brace
IsotopeEnd(s, p) ==
  LET c == p + 1 + DigitRun(s, p + 1)
  IN IF s[p] = "^" /\ DigitRun(s, p + 1) > 0 /\ c <= Len(s)
          /\ s[c] \in Capitals
     THEN c + LowercaseRun(s, c + 1)
     ELSE 0

\* replace(/(\^|\^{)(\d+)([A-Z][a-z]*)/g, isotopeWithSuperscript)
RECURSIVE ReplaceIsotope(_, _)
ReplaceIsotope(s, i) ==
  LET S == {p \in i..Len(s) : IsotopeEnd(s, p) > 0}
  IN IF S = {} THEN SubSeq(s, i, Len(s))
     ELSE LET p == Min(S)
              e == IsotopeEnd(s, p)
              c == p + 1 + DigitRun(s, p + 1)
          IN SubSeq(s, i, p - 1) \o <<"<span class=chemical-formula>", "<sup>">>
               \o SubSeq(s, p + 1, c - 1) \o <<"</sup>">> \o SubSeq(s, c, e)
               \o <<"</span>">> \o ReplaceIsotope(s, e + 1)

\* Canonicalize of the i flag: the upper case of a letter
Canonicalize(c) ==
  IF c = smallOmega THEN capitalOmega
  ELSE IF c \in Lowercase
       THEN UpperLetters[CHOOSE k \in 1..Len(LowerLetters) : LowerLetters[k] = c]
       ELSE c

\* the unit patterns of physicsPatterns, lines 326-340, in source order: the
\* alternatives of the group in the order the regular expression tries
\* them (an optional ^ first with it, then without), the i flag, and the
\* unit that the replacement writes. The four equations that follow them
\* need letters that no text holds.
physicsUnits ==
  <<
     [alternatives |-> <<<<"m", "/", "s">>>>,
      ignoreCase |-> FALSE, unit |-> <<"m", "/", "s">>],
     [alternatives |-> <<<<"k", "g", "/", "m", "^", "3">>,
                         <<"k", "g", "/", "m", "3">>,
                         <<"k", "g", "/", "m", superThree>>>>,
      ignoreCase |-> FALSE, unit |-> <<"k", "g", "/", "m", superThree>>],
     [alternatives |-> <<<<"m", "/", "s", "^", "2">>,
                         <<"m", "/", "s", "2">>,
                         <<"m", "/", "s", superTwo>>>>,
      ignoreCase |-> FALSE, unit |-> <<"m", "/", "s", superTwo>>],
     [alternatives |-> <<<<"N">>,
                         <<"n", "e", "w", "t", "o", "n">>>>,
      ignoreCase |-> TRUE, unit |-> <<"N">>],
     [alternatives |-> <<<<"P", "a">>,
                         <<"p", "a", "s", "c", "a", "l">>>>,
      ignoreCase |-> TRUE, unit |-> <<"P", "a">>],
     [alternatives |-> <<<<"J">>,
                         <<"j", "o", "u", "l", "e">>>>,
      ignoreCase |-> TRUE, unit |-> <<"J">>],
     [alternatives |-> <<<<"W">>,
                         <<"w", "a", "t", "t">>>>,
      ignoreCase |-> TRUE, unit |-> <<"W">>],
     [alternatives |-> <<<<"K">>,
                         <<"k", "e", "l", "v", "i", "n">>>>,
      ignoreCase |-> TRUE, unit |-> <<"K">>],
     [alternatives |-> <<<<"m", "o", "l">>>>,
      ignoreCase |-> TRUE, unit |-> <<"m", "o", "l">>],
     [alternatives |-> <<<<"H", "z">>,
                         <<"h", "e", "r", "t", "z">>>>,
      ignoreCase |-> TRUE, unit |-> <<"H", "z">>],
     [alternatives |-> <<<<capitalOmega>>,
                         <<"o", "h", "m">>>>,
      ignoreCase |-> TRUE, unit |-> <<capitalOmega>>],
     [alternatives |-> <<<<"V">>,
                         <<"v", "o", "l", "t">>>>,
      ignoreCase |-> TRUE, unit |-> <<"V">>],
     [alternatives |-> <<<<"A">>,
                         <<"a", "m", "p", "e", "r", "e">>>>,
      ignoreCase |-> TRUE, unit |-> <<"A">>],
     [alternatives |-> <<<<"C">>,
                         <<"c", "o", "u", "l", "o", "m", "b">>>>,
      ignoreCase |-> TRUE, unit |-> <<"C">>],
     [alternatives |-> <<<<"T">>,
                         <<"t", "e", "s", "l", "a">>>>,
      ignoreCase |-> TRUE, unit |-> <<"T">>]
  >>

\* the word t is at position p of s, letter case aside when ignoreCase
WordAt(s, p, t, ignoreCase) ==
  /\ p + Len(t) - 1 <= Len(s)
  /\ \A k \in 1..Len(t) :
       IF ignoreCase THEN Canonicalize(s[p + k - 1]) = Canonicalize(t[k])
       ELSE s[p + k - 1] = t[k]

\* the length of the \s* that follows position i - 1
RECURSIVE SpaceRun(_, _)
SpaceRun(s, i) ==
  IF i <= Len(s) /\ s[i] \in Whitespace THEN 1 + SpaceRun(s, i + 1) ELSE 0

\* where the match of /(\d+)\s*(alternatives)/ that starts at p ends, 0 when
\* none starts there: the digits and the white space are taken greedily,
\* then the first alternative that is there
UnitEnd(s, p, pattern) ==
  LET u == p + DigitRun(s, p) + SpaceRun(s, p + DigitRun(s, p))
      A == {a \in 1..Len(pattern.alternatives) :
              WordAt(s, u, pattern.alternatives[a], pattern.ignoreCase)}
  IN IF DigitRun(s, p) = 0 \/ A = {} THEN 0
     ELSE u + Len(pattern.alternatives[Min(A)]) - 1

\* replace(pattern, '$1 <span class="physics-unit">unit</span>')
RECURSIVE ReplaceUnit(_, _, _)
ReplaceUnit(s, i, pattern) ==
  LET S == {p \in i..Len(s) : UnitEnd(s, p, pattern) > 0}
  IN IF S = {} THEN SubSeq(s, i, Len(s))
     ELSE LET p == Min(S)
          IN SubSeq(s, i, p - 1) \o SubSeq(s, p, p + DigitRun(s, p) - 1)
               \o <<" ", "<span class=physics-unit>">> \o pattern.unit
               \o <<"</span>">>
               \o ReplaceUnit(s, UnitEnd(s, p, pattern) + 1, pattern)

\* physicsPatterns.forEach(([pattern, replacement]) => ...), from entry n;
\* no replacement changes an empty text
RECURSIVE ReplacePhysics(_, _)
ReplacePhysics(text, n) ==
  IF text = << >> \/ n > Len(physicsUnits) THEN text
  ELSE ReplacePhysics(ReplaceUnit(text, 1, physicsUnits[n]), n + 1)

\* the length of the (\w*) that follows position i - 1
RECURSIVE WordRun(_, _)
WordRun(s, i) ==
  IF i <= Len(s) /\ s[i] \in WordChars THEN 1 + WordRun(s, i + 1) ELSE 0

\* the replacement function of the fenced code block
CodeBlock(language, code) ==
  (IF language = << >>
   THEN <<"<pre class=code-block>">>
   ELSE <<"<pre class=code-block language-">> \o language \o <<">">>
          \o <<"<div class=language-identifier>">> \o language \o <<"</div>">>)
  \o <<"<code>">> \o Trim(code) \o <<"</code>", "</pre>">>

\* replace(/(3 ticks)(\w*)([\s\S]*?)(3 ticks)/g, (match, language, code) => ...)
RECURSIVE ReplaceFence(_, _)
ReplaceFence(s, i) ==
  IF i > Len(s) THEN << >>
  ELSE LET w == WordRun(s, i + 3)
           j == IndexOfRun(s, i + 3 + w, tick, 3)
       IN IF RunAt(s, i, tick, 3) /\ j > 0
          THEN CodeBlock(SubSeq(s, i + 3, i + 2 + w), SubSeq(s, i + 3 + w, j - 1))
                 \o ReplaceFence(s, j + 3)
          ELSE <<s[i]>> \o ReplaceFence(s, i + 1)

\* replace(/(tick)([^(tick)]+)(tick)/g, '<code class="inline-code">$1</code>')
RECURSIVE ReplaceInlineCode(_, _)
ReplaceInlineCode(s, i) ==
  IF i > Len(s) THEN << >>
  ELSE LET j == IndexOf(s, i + 1, tick)
       IN IF s[i] = tick /\ j >= i + 2
          THEN <<"<code class=inline-code>">> \o SubSeq(s, i + 1, j - 1)
                 \o <<"</code>">> \o ReplaceInlineCode(s, j + 1)
          ELSE <<s[i]>> \o ReplaceInlineCode(s, i + 1)

\* the lookahead (?=\[!|\n\n|$) holds at position p
CalloutEnds(s, p) ==
  \/ p > Len(s)
  \/ s[p] \in CalloutMarkers
  \/ RunAt(s, p, "\n", 2)

\* replace(/\[!NOTE\]([\s\S]*?)(?=\[!|\n\n|$)/g, '<div class="note">$1</div>')
\* and the same for TIP and DEFINITION
RECURSIVE ReplaceCallout(_, _, _, _)
ReplaceCallout(s, i, marker, open) ==
  IF i > Len(s) THEN << >>
  ELSE IF s[i] = marker
       THEN LET p == Min({q \in (i + 1)..(Len(s) + 1) : CalloutEnds(s, q)})
            IN <<open>> \o SubSeq(s, i + 1, p - 1) \o <<"</div>">>
                 \o ReplaceCallout(s, p, marker, open)
       ELSE <<s[i]>> \o ReplaceCallout(s, i + 1, marker, open)

\* the elements whose text holds an equals sign: the character itself and
\* the tags with a class attribute
WithEqualsSign ==
  {"=", "<span class=math-equation>", "<span class=chemical-formula>",
   "<pre class=code-block>", "<pre class=code-block language-",
   "<div class=language-identifier>", "<code class=inline-code>",
   "<div class=note>", "<div class=annotation>", "<div class=definition>"}

\* replace(/==([^=]+)==/g, '<span class="highlight">$1</span>')
RECURSIVE ReplaceHighlight(_, _)
ReplaceHighlight(s, i) ==
  IF i > Len(s) THEN << >>
  ELSE LET S == {q \in (i + 2)..Len(s) : s[q] \in WithEqualsSign}
           e == IF S = {} THEN 0 ELSE Min(S)
       IN IF RunAt(s, i, "=", 2) /\ e >= i + 3 /\ RunAt(s, e, "=", 2)
          THEN <<"<span class=highlight>">> \o SubSeq(s, i + 2, e - 1)
                 \o <<"</span>">> \o ReplaceHighlight(s, e + 2)
          ELSE <<s[i]>> \o ReplaceHighlight(s, i + 1)

\* replace(/\n\n/g, '</p><p>')
RECURSIVE ReplaceParagraphs(_, _)
ReplaceParagraphs(s, i) ==
  IF i > Len(s) THEN << >>
  ELSE IF RunAt(s, i, "\n", 2)
       THEN <<"</p><p>">> \o ReplaceParagraphs(s, i + 2)
       ELSE <<s[i]>> \o ReplaceParagraphs(s, i + 1)

\* the line break replaced by a space
ReplaceLineBreaksBySpaces(s) ==
  [k \in 1..Len(s) |-> IF s[k] = "\n" THEN " " ELSE s[k]]

\* replace(/\n/g, '<br>')
ReplaceLineBreaks(s) ==
  [k \in 1..Len(s) |-> IF s[k] = "\n" THEN "<br>" ELSE s[k]]

\* the n-th replacement that processNonTableText makes to processedText
\* among those that can match, lines 254-380 in source order; the forEach
\* over physicsPatterns is the 8th
nonTableReplacement(text, n) ==
  CASE n = 1 -> ReplaceBold(text, 1)
    [] n = 2 -> ReplaceItalic(text, 1)
    [] n = 3 -> ReplaceCaret(text, 1)
    [] n = 4 -> ReplaceModulus(text, 1)
    [] n = 5 -> ReplaceElement(text, 1)
    [] n = 6 -> ReplaceIsotope(text, 1)
    [] n = 7 -> ReplaceIon(text, 1)
    [] n = 8 -> ReplacePhysics(text, 1)
    [] n = 9 -> ReplaceFence(text, 1)
    [] n = 10 -> ReplaceInlineCode(text, 1)
    [] n = 11 -> ReplaceCallout(text, 1, "[!NOTE]", "<div class=note>")
    [] n = 12 -> ReplaceCallout(text, 1, "[!TIP]", "<div class=annotation>")
    [] n = 13 -> ReplaceCallout(text, 1, "[!DEFINITION]",
                                "<div class=definition>")
    [] n = 14 -> ReplaceHighlight(text, 1)
    [] n = 15 -> ReplaceParagraphs(text, 1)

\* the replacements above
nonTableReplacements == 15

\* processedText after the replacements from the n-th on; no replacement
\* makes a text empty
RECURSIVE nonTableTextFrom(_, _)
nonTableTextFrom(text, n) ==
  IF text = << >> \/ n > nonTableReplacements THEN text
  ELSE nonTableTextFrom(nonTableReplacement(text, n), n + 1)

\* processNonTableText: null for an empty text, else the markup inside <p>
processNonTableText(text) ==
  IF text = << >> THEN << >>
  ELSE <<"<p>">> \o ReplaceLineBreaks(nonTableTextFrom(text, 1)) \o <<"</p>">>

\* ------------------------------------------------------------ pipe tables
\* the position of the line break that ends the line of position q, or
\* Len(s) + 1 when the line is the last one and has none
LineEnd(s, q) ==
  LET j == IndexOf(s, q, "\n") IN IF j = 0 THEN Len(s) + 1 ELSE j

\* (\|.+\r?\n?) can start at r: a pipe and at least one more character
IsDataLine(s, r) == r <= Len(s) /\ s[r] = "|" /\ LineEnd(s, r) >= r + 2

\* the greedy (\|.+\r?\n?)* from r: where it stops, and where its last
\* iteration (the value of the capture group) started, 0 when none
RECURSIVE DataLines(_, _, _)
DataLines(s, r, last) ==
  IF IsDataLine(s, r)
  THEN IF LineEnd(s, r) <= Len(s)
       THEN DataLines(s, LineEnd(s, r) + 1, r)
       ELSE [pos |-> Len(s) + 1, last |-> r]
  ELSE [pos |-> r, last |-> last]

NoMatch == [end |-> 0, capFrom |-> 0, capTo |-> 0]

\* tableRegex = /^\|.+\r?\n\|-+.+\r?\n(\|.+\r?\n?)*$/gm tried at position q:
\* the end of the match (exclusive) and the extent of the capture group.
\* When $ fails after the last data line and its line break (the next line
\* is neither empty nor a data line), the last iteration gives the line
\* break back, and $ holds before it.
TableMatch(s, q) ==
  LET h == LineEnd(s, q)
      q2 == h + 1
      g == LineEnd(s, q2)
      d == DataLines(s, g + 1, 0)
      headerOk == /\ (q = 1 \/ s[q - 1] = "\n")
                  /\ s[q] = "|" /\ h >= q + 2 /\ h <= Len(s)
      separatorOk == /\ RunAt(s, q2, "|", 1) /\ RunAt(s, q2 + 1, "-", 1)
                     /\ g >= q2 + 3 /\ g <= Len(s)
      atLineEnd == d.pos > Len(s) \/ s[d.pos] = "\n"
  IN IF ~(headerOk /\ separatorOk) THEN NoMatch
     ELSE IF atLineEnd
          THEN [end |-> d.pos, capFrom |-> d.last, capTo |-> d.pos - 1]
          ELSE IF d.last > 0
               THEN [end |-> d.pos - 1, capFrom |-> d.last, capTo |-> d.pos - 2]
               ELSE NoMatch

\* the successive matches of the global tableRegex from position p on
RECURSIVE FindTables(_, _)
FindTables(s, p) ==
  IF p > Len(s) THEN << >>
  ELSE LET m == TableMatch(s, p)
       IN IF m.end > 0
          THEN <<[from |-> p, end |-> m.end,
                  capFrom |-> m.capFrom, capTo |-> m.capTo]>>
                 \o FindTables(s, m.end)
          ELSE FindTables(s, p + 1)

\* text.match(tableRegex): the matched substrings
MatchTables(s) ==
  LET ms == FindTables(s, 1)
  IN [k \in 1..Len(ms) |-> SubSeq(s, ms[k].from, ms[k].end - 1)]

\* text.split(tableRegex): the pieces between the matches and, after each
\* match, the value of the regex's capture group spliced in (an undefined
\* capture is modelled as the empty text: both are falsy)
RECURSIVE SplitPieces(_, _, _, _)
SplitPieces(s, ms, k, p) ==
  IF k > Len(ms) THEN <<SubSeq(s, p, Len(s))>>
  ELSE <<SubSeq(s, p, ms[k].from - 1),
         IF ms[k].capFrom = 0 THEN << >>
         ELSE SubSeq(s, ms[k].capFrom, ms[k].capTo)>>
       \o SplitPieces(s, ms, k + 1, ms[k].end)

SplitByTables(s) == SplitPieces(s, FindTables(s, 1), 1, 1)

\* String.prototype.split(c) for a one-character separator
RECURSIVE SplitOn(_, _)
SplitOn(s, c) ==
  LET j == IndexOf(s, 1, c)
  IN IF j = 0 THEN <<s>>
     ELSE <<SubSeq(s, 1, j - 1)>> \o SplitOn(SubSeq(s, j + 1, Len(s)), c)

\* line.split('|').slice(1, -1).map(cell => cell.trim())
Cells(line) ==
  LET c == SplitOn(line, "|")
  IN IF Len(c) <= 2 THEN << >>
     ELSE [k \in 1..(Len(c) - 2) |-> Trim(c[k + 1])]

TextNode(part) ==
  [kind |-> "text", html |-> processNonTableText(part),
   headers |-> << >>, rows |-> << >>]

\* lines = table.trim().split('\n'); headers from lines[0], rows from
\* lines.slice(2)
TableNode(table) ==
  LET lines == SplitOn(Trim(table), "\n")
  IN [kind |-> "table", html |-> << >>,
      headers |-> Cells(lines[1]),
      rows |-> IF Len(lines) <= 2 THEN << >>
               ELSE [k \in 1..(Len(lines) - 2) |-> Cells(lines[k + 2])]]

\* parts.forEach((part, index) => ...), index counted from 1 here
RECURSIVE EmitNodes(_, _, _, _)
EmitNodes(parts, tables, index, tableIndex) ==
  IF index > Len(parts) THEN << >>
  ELSE LET part == parts[index]
           takeTable == /\ tableIndex < Len(tables)
                        /\ (index < Len(parts) \/ part = << >>)
       IN (IF part # << >> THEN <<TextNode(part)>> ELSE << >>)
          \o (IF takeTable THEN <<TableNode(tables[tableIndex + 1])>> ELSE << >>)
          \o EmitNodes(parts, tables, index + 1,
                       IF takeTable THEN tableIndex + 1 ELSE tableIndex)

processOutputText(text) ==
  IF text = << >> THEN << >>
  ELSE EmitNodes(SplitByTables(text), MatchTables(text), 1, 0)

\* ------------------------------------------- the plain text of the text path
\* A character outside ASCII is written as its code point.
nArySummation == "U+2211"
capitalSigma == "U+03A3"

\* symbolReplacements: the character of each pattern and its replacement
symbolReplacements ==
  << <<"U+221A", "U+221A">>, <<"U+03C0", "U+03C0">>, <<"U+03B8", "U+03B8">>,
     <<nArySummation, capitalSigma>>, <<"U+222B", "U+222B">>,
     <<"U+221E", "U+221E">>, <<"U+00B1", "U+00B1">>, <<"U+00D7", "U+00D7">>,
     <<"U+00F7", "U+00F7">>, <<"U+2264", "U+2264">>, <<"U+2265", "U+2265">>,
     <<"U+2260", "U+2260">>, <<"U+2192", "U+2192">>, <<"U+2194", "U+2194">>,
     <<"U+2202", "U+2202">>, <<"U+2207", "U+2207">>, <<"U+2234", "U+2234">>,
     <<"U+2235", "U+2235">>, <<"U+03B1", "U+03B1">>, <<"U+03B2", "U+03B2">>,
     <<"U+03B3", "U+03B3">>, <<"U+03B4", "U+03B4">>, <<"U+03B5", "U+03B5">>,
     <<"U+03BB", "U+03BB">>, <<"U+00B5", "U+00B5">>, <<"U+03C3", "U+03C3">>,
     <<"U+03C9", "U+03C9">> >>

\* what symbolReplacements.forEach(([pattern, replacement]) => ...) makes
\* of one character: every pattern is one character under the g flag, the
\* patterns differ from each other, and no replacement is a pattern of a
\* later entry, so the passes in order rewrite c by its own entry, from the
\* n-th on
ReplaceSymbol(c, n) ==
  LET S == {m \in n..Len(symbolReplacements) : symbolReplacements[m][1] = c}
  IN IF S = {} THEN c ELSE symbolReplacements[Min(S)][2]

ReplaceSymbols(s, n) == [k \in 1..Len(s) |-> ReplaceSymbol(s[k], n)]

\* /open(.*?)close/ matches at p: the lazy group ends at the first close, and
\* without the s flag it holds no line break
WrappedAt(s, p, open, close, dotAll) ==
  LET j == IndexOf(s, p + 1, close)
  IN s[p] = open /\ j > 0 /\ (dotAll \/ NoNewline(s, p + 1, j - 1))

\* replace(/open(.*?)close/g, pre $1 post), with the s flag when dotAll;
\* keep is FALSE where the replacement drops $1; one step per match from i on
RECURSIVE ReplaceWrapped(_, _, _, _, _, _, _, _)
ReplaceWrapped(s, i, open, close, dotAll, pre, keep, post) ==
  LET S == {p \in i..Len(s) : WrappedAt(s, p, open, close, dotAll)}
  IN IF S = {} THEN SubSeq(s, i, Len(s))
     ELSE LET p == Min(S)
              j == IndexOf(s, p + 1, close)
          IN SubSeq(s, i, p - 1) \o pre
               \o (IF keep THEN SubSeq(s, p + 1, j - 1) ELSE << >>) \o post
               \o ReplaceWrapped(s, j + 1, open, close, dotAll, pre, keep, post)

\* where the opening <pre class="code-block.*?"> that starts at i ends,
\* 0 when none starts there
PreOpenEnd(s, i) ==
  IF s[i] = "<pre class=code-block>" THEN i
  ELSE IF s[i] = "<pre class=code-block language-" THEN IndexOf(s, i + 1, ">")
       ELSE 0

\* where the </pre> of the block that opens at i is, 0 when no block opens
PreClose(s, i) ==
  LET o == PreOpenEnd(s, i)
  IN IF o = 0 THEN 0 ELSE IndexOf(s, o + 1, "</pre>")

\* replace(/<pre class="code-block.*?">(.*?)<\/pre>/gs, '\n\n$1\n\n')
RECURSIVE ReplacePre(_, _)
ReplacePre(s, i) ==
  LET S == {p \in i..Len(s) : PreClose(s, p) > 0}
  IN IF S = {} THEN SubSeq(s, i, Len(s))
     ELSE LET p == Min(S)
              j == PreClose(s, p)
          IN SubSeq(s, i, p - 1) \o <<"\n", "\n">>
               \o SubSeq(s, PreOpenEnd(s, p) + 1, j - 1) \o <<"\n", "\n">>
               \o ReplacePre(s, j + 1)

\* the tags that a text can hold, each one element of the sequence
TagTokens ==
  {"<strong>", "</strong>", "<em>", "</em>", "<sub>", "</sub>", "<sup>", "</sup>",
   "<span class=math-equation>", "<span class=chemical-formula>",
   "<span class=physics-unit>", "<span class=physics-equation>",
   "<span class=highlight>", "</span>", "<div class=math-equation block>",
   "<div class=language-identifier>", "<div class=note>",
   "<div class=annotation>", "<div class=definition>", "</div>",
   "<pre class=code-block>", "</pre>", "<code>", "<code class=inline-code>",
   "</code>", "<p>", "</p>", "</p><p>", "<br>"}

\* what /<[^>]+>/ matches from p on ends at TagEnd(s, p), 0 when it matches
\* nothing there. A tag is matched whole. A < of the text, or the opening
\* pre tag with a language, is matched with everything up to the first >
\* that follows, be it the end of a tag or a > of the text; the + wants a
\* character between < and >.
TagEnd(s, p) ==
  IF s[p] \in TagTokens THEN p
  ELSE IF s[p] \notin {"<", "<pre class=code-block language-"} THEN 0
  ELSE LET Q == {q \in (p + 1)..Len(s) : s[q] \in TagTokens \cup {">"}}
       IN IF Q = {} THEN 0
          ELSE IF s[p] = "<" /\ Min(Q) = p + 1 /\ s[p + 1] = ">" THEN 0
               ELSE Min(Q)

\* replace(/<[^>]+>/g, ''), one step per match from i on
RECURSIVE StripTags(_, _)
StripTags(s, i) ==
  LET S == {p \in i..Len(s) : TagEnd(s, p) > 0}
  IN IF S = {} THEN SubSeq(s, i, Len(s))
     ELSE SubSeq(s, i, Min(S) - 1) \o StripTags(s, TagEnd(s, Min(S)) + 1)

\* replace(/\n\n\n+/g, '\n\n')
RECURSIVE CollapseNewlines(_, _)
CollapseNewlines(s, i) ==
  LET S == {p \in i..Len(s) : RunAt(s, p, "\n", 3)}
  IN IF S = {} THEN SubSeq(s, i, Len(s))
     ELSE LET p == Min(S)
              T == {j \in p..Len(s) : s[j] # "\n"}
              e == IF T = {} THEN Len(s) + 1 ELSE Min(T)
          IN SubSeq(s, i, p - 1) \o <<"\n", "\n">> \o CollapseNewlines(s, e)

\* replace(/tag/g, replacement) for a tag without content
RECURSIVE ReplaceToken(_, _, _)
ReplaceToken(s, tag, replacement) ==
  LET p == IndexOf(s, 1, tag)
  IN IF p = 0 THEN s
     ELSE SubSeq(s, 1, p - 1) \o replacement
            \o ReplaceToken(SubSeq(s, p + 1, Len(s)), tag, replacement)

\* '\n\nNOTE: $1\n\n' and its two siblings
Labelled(s, open, label) ==
  ReplaceWrapped(s, 1, open, "</div>", TRUE, <<"\n", "\n", label>>, TRUE,
                 <<"\n", "\n">>)

\* $1 alone
Unwrapped(s, open, close, dotAll) ==
  ReplaceWrapped(s, 1, open, close, dotAll, << >>, TRUE, << >>)

\* the n-th assignment text = text.replace(...) of processPdfText, lines
\* 440-473 in source order; the forEach over symbolReplacements is the 16th
pdfReplacement(text, n) ==
  CASE n = 1 -> ReplaceWrapped(text, 1, "<sub>", "</sub>", FALSE,
                               <<"_", "{">>, TRUE, <<"}">>)
    [] n = 2 -> ReplaceWrapped(text, 1, "<sup>", "</sup>", FALSE,
                               <<"^", "{">>, TRUE, <<"}">>)
    [] n = 3 -> ReplaceWrapped(text, 1, "<div class=math-equation block>",
                               "</div>", FALSE, <<"\n", "\n">>, TRUE,
                               <<"\n", "\n">>)
    [] n = 4 -> Unwrapped(text, "<span class=math-equation>", "</span>", FALSE)
    [] n = 5 -> Unwrapped(text, "<span class=chemical-formula>", "</span>", FALSE)
    [] n = 6 -> Unwrapped(text, "<span class=physics-unit>", "</span>", FALSE)
    [] n = 7 -> Unwrapped(text, "<span class=physics-equation>", "</span>", FALSE)
    [] n = 8 -> ReplacePre(text, 1)
    [] n = 9 -> ReplaceWrapped(text, 1, "<div class=language-identifier>",
                               "</div>", FALSE, << >>, FALSE, << >>)
    [] n = 10 -> Unwrapped(text, "<code>", "</code>", TRUE)
    [] n = 11 -> ReplaceWrapped(text, 1, "<code class=inline-code>", "</code>",
                                FALSE, <<tick>>, TRUE, <<tick>>)
    [] n = 12 -> Labelled(text, "<div class=note>", "NOTE: ")
    [] n = 13 -> Labelled(text, "<div class=annotation>", "TIP: ")
    [] n = 14 -> Labelled(text, "<div class=definition>", "DEFINITION: ")
    [] n = 15 -> ReplaceWrapped(text, 1, "<span class=highlight>", "</span>",
                                FALSE, <<"*">>, TRUE, <<"*">>)
    [] n = 16 -> ReplaceSymbols(text, 1)
    [] n = 17 -> ReplaceToken(text, "</p><p>", <<"\n", "\n">>)
    [] n = 18 -> ReplaceToken(text, "<br>", <<"\n">>)
    [] n = 19 -> Unwrapped(text, "<p>", "</p>", TRUE)
    [] n = 20 -> StripTags(text, 1)
    [] n = 21 -> CollapseNewlines(text, 1)

\* the assignments that processPdfText makes to text
pdfReplacements == 21

\* text after the assignments from the n-th on; no replacement changes an
\* empty text
RECURSIVE pdfTextFrom(_, _)
pdfTextFrom(text, n) ==
  IF text = << >> \/ n > pdfReplacements THEN text
  ELSE pdfTextFrom(pdfReplacement(text, n), n + 1)

\* processPdfText, lines 438-476
processPdfText(content) == pdfTextFrom(content, 1)

\* ------------------------------------------------------ the inputs rendered
RECURSIVE Concat(_)
Concat(ss) == IF ss = << >> THEN << >> ELSE Head(ss) \o Concat(Tail(ss))

SeqsUpTo(S, n) == UNION {[1..k -> S] : k \in 0..n}

RECURSIVE Repeat(_, _)
Repeat(s, n) == IF n = 0 THEN << >> ELSE s \o Repeat(s, n - 1)

SoupSegments ==
  {<<"x">>, <<"*">>, <<"*", "*">>, <<tick>>, <<tick, tick, tick>>, <<"\n">>}

\* a table block: header line, separator line, then rows data lines
TableBlock(cols, rows) ==
  <<"|">> \o Repeat(<<"x", "|">>, cols) \o <<"\n">>
  \o <<"|">> \o Repeat(<<"-", "|">>, cols) \o <<"\n">>
  \o Repeat(<<"|">> \o Repeat(<<"x", "|">>, cols) \o <<"\n">>, rows)

TableBlocks == {TableBlock(c, r) : c \in 1..MaxCols, r \in 0..MaxRows}
ProseBlocks == {<<"\n">>, <<"x", "\n">>, <<"x">>}

\* the characters that symbolReplacements looks for
Symbols == {symbolReplacements[n][1] : n \in 1..Len(symbolReplacements)}

SymbolInputs == {<<c>> : c \in Symbols} \cup {<<"x", c, "x">> : c \in Symbols}

\* a callout alone, two callouts in a row, a callout and a paragraph
CalloutInputs ==
  {<<m, "x">> : m \in CalloutMarkers}
  \cup {<<m, "x", "\n", "\n", "x">> : m \in CalloutMarkers}
  \cup {<<m[1], "x", m[2], "x">> : m \in CalloutMarkers \X CalloutMarkers}

HighlightInputs ==
  {<<"=", "=", "x", "=", "=">>, <<"x", "=", "=", "x", "=", "=", "x">>,
   <<"=", "=", "|", "x", "|", "=", "=">>, <<"=", "=", "x">>}

\* the ways the inputs write a unit: each unit of physicsUnits as the
\* replacement writes it, and the two units with an exponent written with ^
UnitForms ==
  {physicsUnits[n].unit : n \in 1..Len(physicsUnits)}
  \cup {<<"m", "/", "s", "^", "2">>, <<"k", "g", "/", "m", "^", "3">>}

\* a number and a unit, with and without a space between them
UnitInputs ==
  {<<"5">> \o u : u \in UnitForms} \cup {<<"5", " ">> \o u : u \in UnitForms}

\* texts without any markup: letters, hyphens, line breaks
PlainInputs == SeqsUpTo({"x", "A", "-", "\n"}, MaxPlain)

\* an answer that holds a tag itself
TagPairs ==
  {<<"<sub>", "</sub>">>, <<"<sup>", "</sup>">>,
   <<"<div class=math-equation block>", "</div>">>,
   <<"<span class=math-equation>", "</span>">>,
   <<"<span class=chemical-formula>", "</span>">>,
   <<"<span class=physics-unit>", "</span>">>,
   <<"<span class=physics-equation>", "</span>">>,
   <<"<pre class=code-block>", "</pre>">>,
   <<"<div class=language-identifier>", "</div>">>,
   <<"<code>", "</code>">>, <<"<code class=inline-code>", "</code>">>,
   <<"<div class=note>", "</div>">>, <<"<div class=annotation>", "</div>">>,
   <<"<div class=definition>", "</div>">>,
   <<"<span class=highlight>", "</span>">>, <<"<p>", "</p>">>}

HtmlInputs ==
  {<<t[1], "x", t[2]>> : t \in TagPairs}
  \cup {<<t[1], "x", "\n", "x", t[2]>> : t \in TagPairs}
  \cup {<<"x", "<br>", "x">>, <<"x", "</p><p>", "x">>,
        <<"x", "\n", "\n", "\n", "\n", "x">>,
        <<"<pre class=code-block language-", "x", ">", "x", "</pre>">>}

\* texts that compare with < and >, without any markup
ComparisonInputs == SeqsUpTo({"x", "<", ">"}, MaxPlain)

Inputs ==
  {Concat(f) : f \in SeqsUpTo(SoupSegments, MaxSegs)}
  \cup {Concat(f) : f \in SeqsUpTo(TableBlocks \cup ProseBlocks, MaxBlocks)}
  \cup SymbolInputs \cup CalloutInputs \cup HighlightInputs \cup PlainInputs
  \cup HtmlInputs \cup UnitInputs \cup ComparisonInputs

\* ------------------------------------------------- the state of the two tabs
\* a request appends at most a user, a system and an AI message
MessageIds == 1..(3 * (MaxSubmits + MaxTurns))

\* a File, and null
Files == {"f1"}
NoFile == "none"

\* reader.readAsDataURL(file): 'data:image/png;base64,' and the encoded bytes
DataUrl(file) == <<"data:image/png;base64", ",", file>>

\* useState of AskTab, lines 611-628; null is the empty text
AskTabInitial ==
  [question |-> << >>, followUpQuestion |-> << >>, imageFile |-> NoFile,
   imagePreview |-> << >>, isLoading |-> FALSE, loadingMessage |-> "",
   messages |-> << >>, sources |-> << >>, lastResponse |-> << >>,
   optimizedQuery |-> << >>, originalQuery |-> << >>, showFollowUp |-> FALSE,
   conversationContext |-> << >>]

NoSearch ==
  [results |-> << >>, message |-> "", isOptimized |-> FALSE,
   optimizedQuery |-> << >>, originalQuery |-> << >>]

NoResponse == [response |-> << >>, sources |-> << >>]

\* one run of handleSubmit or handleFollowUpSubmit: where it stands, the
\* values its closure holds, and what the tab held when it started
NoRequest ==
  [pc |-> "idle", kind |-> "none", prompt |-> << >>, file |-> NoFile,
   imageBase64 |-> << >>, context |-> << >>, webSearch |-> NoSearch,
   newContext |-> << >>, response |-> NoResponse,
   error |-> "", started |-> 0, failures |-> 0,
   before |-> [count |-> 0, lastResponse |-> << >>, sources |-> << >>]]

\* useState of ExplainTab
ExplainTabInitial ==
  [topic |-> << >>, imageFile |-> NoFile, imagePreview |-> << >>,
   isLoading |-> FALSE, loadingMessage |-> "", explanation |-> << >>,
   sources |-> << >>, optimizedQuery |-> << >>, originalQuery |-> << >>]

NoExplainRequest ==
  [pc |-> "idle", topic |-> << >>, file |-> NoFile, fromPreview |-> FALSE,
   imageBase64 |-> << >>, searchImage |-> << >>, explainImage |-> << >>,
   webSearch |-> NoSearch, error |-> "", started |-> 0]

ExportsIdle ==
  /\ exports = [e \in Export |-> IdleExport]
  /\ started = 0
  /\ notification = [open |-> FALSE, message |-> "", severity |-> "info"]
  /\ shown = [e \in Export |-> {}]
  /\ uncaughtErrors = 0
  /\ bodyContainers = 0

TextIdle ==
  /\ nodes = << >>
  /\ rendered = FALSE
  /\ pdfText = << >>
  /\ normalized = FALSE

\* no row of the profiles table for the user
NoProfile == [exists |-> FALSE, last_active |-> 0, study_streak |-> 0]

\* no operation of authService has run
NoAuthEvent == [kind |-> "none", clean |-> FALSE, before |-> NoProfile, at |-> 0]

\* useState of DeepResearchTab
ResearchTabInitial == [problem |-> << >>, isLoading |-> FALSE, researchSteps |-> << >>]

\* no call of performDeepResearch is in flight
NoResearchRun == [pc |-> "idle", index |-> 0, runs |-> 0]

TabsIdle ==
  /\ clock = 0
  /\ profile = NoProfile
  /\ authEvent = NoAuthEvent
  /\ researchTab = ResearchTabInitial
  /\ researchRun = NoResearchRun
  /\ askTab = AskTabInitial
  /\ askRequest = NoRequest
  /\ askReaders = {}
  /\ feedbackCount = [id \in MessageIds |-> 0]
  /\ explainTab = ExplainTabInitial
  /\ explainRequest = NoExplainRequest
  /\ explainReaders = {}

Init ==
  /\ ExportsIdle
  /\ rawText = << >>
  /\ TextIdle
  /\ TabsIdle

\* the answer text that a tab holds when ResultsDisplay renders it
InitText ==
  /\ ExportsIdle
  /\ rawText \in Inputs
  /\ TextIdle
  /\ TabsIdle

\* ResultsDisplay renders processOutputText(content)
Render ==
  /\ ~rendered
  /\ nodes' = processOutputText(rawText)
  /\ rendered' = TRUE
  /\ UNCHANGED <<rawText, pdfText, normalized, exportVars, tabVars>>

\* the text path of downloadAnswerAsPdf, line 584: processPdfText(content)
NormalizeForPdf ==
  /\ ~normalized
  /\ pdfText' = processPdfText(rawText)
  /\ normalized' = TRUE
  /\ UNCHANGED <<rawText, nodes, rendered, exportVars, tabVars>>

\* App.showNotification
showNotification(message, severity) ==
  [open |-> TRUE, message |-> message, severity |-> severity]

\* handleDownloadPdfInternal of AskTab and of ExplainTab: downloadAnswerAsPdf
\* is async and is not awaited, so it cannot throw into the try block; the
\* handler goes on to the success notification as soon as the call returns
\* its promise
HandleDownloadPdf(type, content, fault) ==
  IF content = 0
  THEN /\ notification' =
            showNotification(IF type = "ask"
                             THEN "No AI response content to download."
                             ELSE "No explanation to download.", "warning")
       /\ UNCHANGED <<exports, started, shown, uncaughtErrors, bodyContainers>>
       /\ UNCHANGED <<textVars, tabVars>>
  ELSE /\ started < MaxExports
       /\ LET e == started + 1
              x == BeginExport(type, content, fault)
          IN /\ exports' = [exports EXCEPT ![e] = x]
             /\ started' = e
             /\ bodyContainers' =
                  IF x.status = "rasterizing" THEN bodyContainers + 1
                                              ELSE bodyContainers
             /\ notification' =
                  showNotification("PDF downloaded successfully!", "success")
             /\ shown' = [shown EXCEPT ![e] = @ \cup {"PDF downloaded successfully!"}]
             /\ UNCHANGED <<uncaughtErrors, textVars, tabVars>>

\* downloadAnswerAsPdf(type, content) called on its own, with any content
DownloadAnswerAsPdf ==
  \E type \in {"ask", "explain"}, content \in Contents \cup {NullContent},
     fault \in {"none", "setup"} :
    /\ started < MaxExports
    /\ LET e == started + 1
           x == BeginExport(type, content, fault)
       IN /\ exports' = [exports EXCEPT ![e] = x]
          /\ started' = e
          /\ bodyContainers' =
               IF x.status = "rasterizing" THEN bodyContainers + 1
                                           ELSE bodyContainers
    /\ UNCHANGED <<notification, shown, uncaughtErrors, textVars, tabVars>>

AskDownloadPdf ==
  \E content \in Contents, fault \in {"none", "setup"} :
    /\ content = 0 => fault = "none"
    /\ HandleDownloadPdf("ask", content, fault)

ExplainDownloadPdf ==
  \E content \in Contents, fault \in {"none", "setup"} :
    /\ content = 0 => fault = "none"
    /\ HandleDownloadPdf("explain", content, fault)

\* html2canvas resolves: htmlToImage removes its container and returns the
\* data URL; downloadAnswerAsPdf sets tempImg.src and awaits the promise
\* that only tempImg.onload resolves
Html2CanvasResolves(e) ==
  /\ exports[e].status = "rasterizing"
  /\ \E h \in ImgHeightsOf(exports[e].content) :
       exports' = [exports EXCEPT ![e].status = "imgLoading",
                                  ![e].raster = "ok",
                                  ![e].imgHeight = h]
  /\ bodyContainers' = bodyContainers - 1
  /\ UNCHANGED <<started, notification, shown, uncaughtErrors, textVars, tabVars>>

\* html2canvas throws: htmlToImage's catch returns null without removing
\* the container; downloadAnswerAsPdf throws 'Image conversion failed'
\* inside its inner try, whose catch runs the text path
Html2CanvasThrows(e) ==
  /\ exports[e].status = "rasterizing"
  /\ \E fault \in {"none", "text", "footer", "save"} :
       exports' = [exports EXCEPT ![e] =
                     TextFallback([@ EXCEPT !.raster = "failed"], fault)]
  /\ UNCHANGED <<started, notification, shown, uncaughtErrors, bodyContainers,
                 textVars, tabVars>>

\* tempImg.onload: an event handler. A throw inside it (the 'Content too
\* large' error, or a throw of addImage) is an uncaught error of the event
\* loop: resolve(null) is never reached and the awaited promise stays pending
TempImgOnload(e) ==
  /\ exports[e].status = "imgLoading"
  /\ \E fault \in {"none", "addImage", "footer", "save"} :
       LET x == [exports[e] EXCEPT !.onloadFired = TRUE]
       IN IF ImageFits(x.imgHeight) /\ fault # "addImage"
          THEN /\ exports' = [exports EXCEPT ![e] =
                      FinishExport([x EXCEPT !.doc = AddImage(@, x.imgHeight)], fault)]
               /\ UNCHANGED uncaughtErrors
          ELSE /\ ImageFits(x.imgHeight) \/ fault = "none"
               /\ exports' = [exports EXCEPT ![e] =
                      [x EXCEPT !.status = "onloadThrew", !.fault = fault]]
               /\ uncaughtErrors' = uncaughtErrors + 1
  /\ UNCHANGED <<started, notification, shown, bodyContainers, textVars, tabVars>>

\* the image fails to load: tempImg has no onerror handler, so nothing
\* resolves or rejects the awaited promise
TempImgError(e) ==
  /\ exports[e].status = "imgLoading"
  /\ exports' = [exports EXCEPT ![e].status = "loadFailed"]
  /\ UNCHANGED <<started, notification, shown, uncaughtErrors, bodyContainers,
                 textVars, tabVars>>

Next ==
  \/ AskDownloadPdf
  \/ ExplainDownloadPdf
  \/ \E e \in Export : Html2CanvasResolves(e)
  \/ \E e \in Export : Html2CanvasThrows(e)
  \/ \E e \in Export : TempImgOnload(e)
  \/ \E e \in Export : TempImgError(e)

Spec == Init /\ [][Next]_vars

NextExporter ==
  \/ DownloadAnswerAsPdf
  \/ \E e \in Export : Html2CanvasResolves(e)
  \/ \E e \in Export : Html2CanvasThrows(e)
  \/ \E e \in Export : TempImgOnload(e)
  \/ \E e \in Export : TempImgError(e)

SpecExporter == Init /\ [][NextExporter]_vars

NextText ==
  \/ Render
  \/ NormalizeForPdf

SpecText == InitText /\ [][NextText]_vars

\* html2canvas settles and the image element fires load or error: the
\* browser's event loop delivers each pending completion
FairSpec ==
  /\ Spec
  /\ \A e \in Export :
       /\ WF_vars(Html2CanvasResolves(e) \/ Html2CanvasThrows(e))
       /\ WF_vars(TempImgOnload(e) \/ TempImgError(e))

\* ------------------------------------------------------------------ AskTab
\* what the user types; a text is a sequence of characters, a word one element
Questions == {<<"q1">>}
TypedTexts == {<< >>, <<" ">>} \cup Questions
FollowUps == {<< >>, <<"q2">>}

\* WebSearchResponse: results with an optimized query, or a message and no
\* result
SearchResponses ==
  {[results |-> <<"r1">>, message |-> "", isOptimized |-> TRUE,
    optimizedQuery |-> <<"oq">>, originalQuery |-> << >>],
   [results |-> << >>, message |-> "No results found", isOptimized |-> FALSE,
    optimizedQuery |-> << >>, originalQuery |-> << >>]}

\* AskResponse: an answer with a source, an answer without
AskResponses ==
  {[response |-> <<"a1">>, sources |-> <<"s1">>],
   [response |-> <<"a2">>, sources |-> << >>]}

\* the services catch every failure and throw new Error(errorMessage)
SearchError == "Web search service is currently unavailable. Please try again later."
AskError == "AI service is currently unavailable. Please try again later."
ReadError == "File reading failed"

\* everything outside AskTab and the notification of App
askFrame ==
  <<exports, started, shown, uncaughtErrors, bodyContainers, textVars, explainVars,
    authVars, researchVars>>

\* imagePreview.split(',')[1]
Base64Of(imagePreview) == SplitOn(imagePreview, ",")[2]

\* getImageBase64(file) resolves e.target.result, the whole data URL
getImageBase64(file) == DataUrl(file)

\* generateId(): Date.now() and nine random characters, a fresh id
NewId(messages) == Len(messages) + 1

Message(id, type, text, imagePreview, showFeedback) ==
  [id |-> id, type |-> type, text |-> text, imagePreview |-> imagePreview,
   showFeedback |-> showFeedback]

\* ConversationMessage; image is { data } when there is one
ContextMessage(role, content, image) ==
  [role |-> role, content |-> content, image |-> image]

\* what the tab holds when a handler starts
Snapshot(tab) ==
  [count |-> Len(tab.messages), lastResponse |-> tab.lastResponse,
   sources |-> tab.sources]

\* InputSection onChange: setQuestion
AskSetQuestion ==
  /\ ~askTab.isLoading
  /\ \E q \in TypedTexts :
       /\ q # askTab.question
       /\ askTab' = [askTab EXCEPT !.question = q]
  /\ UNCHANGED <<askRequest, askReaders, feedbackCount, notification, askFrame>>

\* the follow-up field, rendered when showFollowUp && !isLoading
AskSetFollowUp ==
  /\ askTab.showFollowUp /\ ~askTab.isLoading
  /\ \E q \in FollowUps :
       /\ q # askTab.followUpQuestion
       /\ askTab' = [askTab EXCEPT !.followUpQuestion = q]
  /\ UNCHANGED <<askRequest, askReaders, feedbackCount, notification, askFrame>>

\* handleImageUploadInternal: setImageFile, and a FileReader is started
AskImageUpload ==
  /\ ~askTab.isLoading
  /\ \E f \in Files :
       /\ f \notin askReaders
       /\ askTab' = [askTab EXCEPT !.imageFile = f]
       /\ askReaders' = askReaders \cup {f}
  /\ UNCHANGED <<askRequest, feedbackCount, notification, askFrame>>

\* reader.onload of handleImageUploadInternal: setImagePreview(result)
AskPreviewLoads ==
  /\ \E f \in askReaders :
       /\ askTab' = [askTab EXCEPT !.imagePreview = DataUrl(f)]
       /\ askReaders' = askReaders \ {f}
  /\ UNCHANGED <<askRequest, feedbackCount, notification, askFrame>>

\* clearImageInternal
ClearImage(tab) == [tab EXCEPT !.imageFile = NoFile, !.imagePreview = << >>]

\* the clear button of InputSection, disabled while loading
AskClearImage ==
  /\ ~askTab.isLoading
  /\ askTab.imagePreview # << >>
  /\ askTab' = ClearImage(askTab)
  /\ UNCHANGED <<askRequest, askReaders, feedbackCount, notification, askFrame>>

\* the finally block: setIsLoading(false), setLoadingMessage('')
StopLoading(tab) == [tab EXCEPT !.isLoading = FALSE, !.loadingMessage = ""]

\* the catch block without the finally block
AskFailsStillLoading(message) ==
  /\ notification' = showNotification(message, "error")
  /\ askRequest' = [askRequest EXCEPT !.pc = "failed", !.error = message,
                                      !.failures = @ + 1]
  /\ UNCHANGED <<askTab, askReaders, feedbackCount, askFrame>>

\* the catch block of both handlers, then the finally block
AskFails(message) ==
  /\ notification' = showNotification(message, "error")
  /\ askTab' = StopLoading(askTab)
  /\ askRequest' = [askRequest EXCEPT !.pc = "failed", !.error = message,
                                      !.failures = @ + 1]
  /\ UNCHANGED <<askReaders, feedbackCount, askFrame>>

\* handleSubmit, lines 711-742, up to its first await. The send button is
\* disabled, and handleKeyDownInternal does nothing, while isLoading or while
\* there is neither a question nor an image. At most limit requests are made.
HandleSubmit(limit) ==
  /\ ~askTab.isLoading
  /\ Trim(askTab.question) # << >> \/ askTab.imageFile # NoFile
  /\ askRequest.started < limit
  /\ LET userMessage == Message(NewId(askTab.messages), "user", askTab.question,
                                askTab.imagePreview, FALSE)
         fromPreview == askTab.imageFile # NoFile /\ askTab.imagePreview # << >>
         reads == askTab.imageFile # NoFile /\ askTab.imagePreview = << >>
     IN /\ askTab' =
             [askTab EXCEPT !.isLoading = TRUE,
                            !.loadingMessage =
                               IF fromPreview THEN "Analyzing image and question..."
                               ELSE IF reads THEN "Processing image..."
                                    ELSE "Analyzing your question...",
                            !.optimizedQuery = << >>,
                            !.originalQuery = << >>,
                            !.messages = Append(@, userMessage)]
        /\ askRequest' =
             [NoRequest EXCEPT !.pc = IF reads THEN "readImage" ELSE "search",
                               !.kind = "submit",
                               !.prompt = askTab.question,
                               !.file = askTab.imageFile,
                               !.imageBase64 =
                                  IF fromPreview THEN Base64Of(askTab.imagePreview)
                                                 ELSE << >>,
                               !.context = askTab.conversationContext,
                               !.started = askRequest.started + 1,
                               !.failures = askRequest.failures,
                               !.before = Snapshot(askTab)]
  /\ UNCHANGED <<askReaders, feedbackCount, notification, askFrame>>

\* line 739: await getImageBase64(imageFile) resolves; performWebSearch is
\* called
AskImageRead ==
  /\ askRequest.pc = "readImage"
  /\ askRequest' = [askRequest EXCEPT !.pc = "search",
                                      !.imageBase64 = getImageBase64(askRequest.file)]
  /\ UNCHANGED <<askTab, askReaders, feedbackCount, notification, askFrame>>

\* reader.onerror of getImageBase64 rejects
AskImageReadFails ==
  /\ askRequest.pc = "readImage"
  /\ AskFails(ReadError)

\* the user turn that a handler adds to the context
UserTurn(request) ==
  ContextMessage("user", request.prompt, request.imageBase64)

\* the context that starts with the new turn alone
NewContextForgetsHistory(request) == <<UserTurn(request)>>

\* newContext = [...conversationContext, userContextMessage]
NewContext(request) == Append(request.context, UserTurn(request))

\* lines 742-768: performWebSearch resolves; the system message, the
\* optimized query, the new context, and askQuestion is called
SubmitSearchResolves ==
  /\ askRequest.pc = "search" /\ askRequest.kind = "submit"
  /\ \E data \in SearchResponses :
       LET newContext == NewContext(askRequest)
           noResults == data.message # "" /\ data.results = << >>
           optimized == data.isOptimized /\ data.optimizedQuery # << >>
       IN /\ askTab' =
               [askTab EXCEPT
                  !.messages =
                     IF noResults
                     THEN Append(@, Message(NewId(@), "system",
                                            <<"Search results couldn't be retrieved.">>,
                                            << >>, FALSE))
                     ELSE @,
                  !.optimizedQuery = IF optimized THEN data.optimizedQuery ELSE @,
                  !.originalQuery =
                     IF optimized
                     THEN (IF data.originalQuery # << >> THEN data.originalQuery
                                                        ELSE askRequest.prompt)
                     ELSE @,
                  !.loadingMessage = "Generating answer...",
                  !.conversationContext = newContext]
          /\ askRequest' = [askRequest EXCEPT !.pc = "ask", !.webSearch = data,
                                              !.newContext = newContext]
  /\ UNCHANGED <<askReaders, feedbackCount, notification, askFrame>>

\* performWebSearch rejects
AskSearchRejects ==
  /\ askRequest.pc = "search"
  /\ AskFails(SearchError)

\* the AI message appended without setLastResponse and setSources
AnsweredWithoutLastResponse(tab, request, response) ==
  [tab EXCEPT
     !.conversationContext =
        Append(request.newContext, ContextMessage("model", response.response, << >>)),
     !.messages = Append(@, Message(NewId(@), "ai", response.response, << >>, TRUE))]

\* the part that both handlers run when askQuestion resolves: the model turn
\* in the context, the AI message, lastResponse and sources
Answered(tab, request, response) ==
  [tab EXCEPT
     !.conversationContext =
        Append(request.newContext, ContextMessage("model", response.response, << >>)),
     !.messages = Append(@, Message(NewId(@), "ai", response.response, << >>, TRUE)),
     !.lastResponse = response.response,
     !.sources = response.sources]

\* lines 771-783 and the finally block
SubmitAnswerResolves ==
  /\ askRequest.pc = "ask" /\ askRequest.kind = "submit"
  /\ \E response \in AskResponses :
       /\ askTab' =
            StopLoading(ClearImage(
              [Answered(askTab, askRequest, response)
                 EXCEPT !.question = << >>, !.showFollowUp = TRUE]))
       /\ askRequest' = [askRequest EXCEPT !.pc = "done", !.response = response]
  /\ UNCHANGED <<askReaders, feedbackCount, notification, askFrame>>

\* askQuestion rejects
AskAnswerRejects ==
  /\ askRequest.pc = "ask"
  /\ AskFails(AskError)

\* handleFollowUpSubmit, lines 795-812, up to its first await. The follow-up
\* section is rendered when showFollowUp && !isLoading, and its button is
\* disabled while the follow-up question is blank.
HandleFollowUpSubmit(limit) ==
  /\ askTab.showFollowUp /\ ~askTab.isLoading
  /\ Trim(askTab.followUpQuestion) # << >>
  /\ askRequest.started < limit
  /\ LET request == [NoRequest EXCEPT !.pc = "search",
                                      !.kind = "followUp",
                                      !.prompt = askTab.followUpQuestion,
                                      !.context = askTab.conversationContext,
                                      !.started = askRequest.started + 1,
                                      !.failures = askRequest.failures,
                                      !.before = Snapshot(askTab)]
         newContext == NewContext(request)
     IN /\ askTab' =
             [askTab EXCEPT !.isLoading = TRUE,
                            !.loadingMessage = "Processing follow-up question...",
                            !.messages =
                               Append(@, Message(NewId(@), "user",
                                                 askTab.followUpQuestion, << >>, FALSE)),
                            !.conversationContext = newContext]
        /\ askRequest' = [request EXCEPT !.newContext = newContext]
  /\ UNCHANGED <<askReaders, feedbackCount, notification, askFrame>>

\* lines 812-819: performWebSearch resolves and askQuestion is called
FollowUpSearchResolves ==
  /\ askRequest.pc = "search" /\ askRequest.kind = "followUp"
  /\ \E data \in SearchResponses :
       askRequest' = [askRequest EXCEPT !.pc = "ask", !.webSearch = data]
  /\ UNCHANGED <<askTab, askReaders, feedbackCount, notification, askFrame>>

\* lines 821-831 and the finally block
FollowUpAnswerResolves ==
  /\ askRequest.pc = "ask" /\ askRequest.kind = "followUp"
  /\ \E response \in AskResponses :
       /\ askTab' =
            StopLoading([Answered(askTab, askRequest, response)
                           EXCEPT !.followUpQuestion = << >>])
       /\ askRequest' = [askRequest EXCEPT !.pc = "done", !.response = response]
  /\ UNCHANGED <<askReaders, feedbackCount, notification, askFrame>>

\* ResultsDisplay renders the two feedback buttons of a message
FeedbackButtons(msg) == msg.type = "ai" /\ msg.showFeedback

\* the messages left as they are
HideFeedbackKeepsButtons(messages, messageId) == messages

\* messages.map(msg => msg.id === messageId ? {...msg, showFeedback: false} : msg)
HideFeedback(messages, messageId) ==
  [k \in 1..Len(messages) |->
     IF messages[k].id = messageId
     THEN [messages[k] EXCEPT !.showFeedback = FALSE]
     ELSE messages[k]]

\* a click on a feedback button: handleMessageFeedbackInternal(id, feedback);
\* feedbackCount counts the calls made for each id
MessageFeedback ==
  \E k \in 1..Len(askTab.messages), feedback \in {"good", "bad"} :
    /\ FeedbackButtons(askTab.messages[k])
    /\ feedbackCount' = [feedbackCount EXCEPT ![askTab.messages[k].id] = @ + 1]
    /\ notification' = showNotification("Feedback recorded. (Display only)", "info")
    /\ askTab' = [askTab EXCEPT !.messages = HideFeedback(@, askTab.messages[k].id)]
    /\ UNCHANGED <<askRequest, askReaders, askFrame>>

\* the question field, the image, one submission after the other, each
\* service resolving or rejecting, and the feedback buttons
NextAsk ==
  \/ AskSetQuestion
  \/ AskImageUpload
  \/ AskPreviewLoads
  \/ AskClearImage
  \/ HandleSubmit(MaxSubmits)
  \/ AskImageRead
  \/ AskImageReadFails
  \/ SubmitSearchResolves
  \/ AskSearchRejects
  \/ SubmitAnswerResolves
  \/ AskAnswerRejects
  \/ MessageFeedback

SpecAsk == Init /\ [][NextAsk]_vars

\* a conversation of submissions and follow-ups in which every service
\* call resolves
NextDialogue ==
  \/ AskSetQuestion
  \/ AskSetFollowUp
  \/ AskImageUpload
  \/ AskPreviewLoads
  \/ AskClearImage
  \/ HandleSubmit(MaxTurns)
  \/ AskImageRead
  \/ SubmitSearchResolves
  \/ SubmitAnswerResolves
  \/ HandleFollowUpSubmit(MaxTurns)
  \/ FollowUpSearchResolves
  \/ FollowUpAnswerResolves

SpecDialogue == Init /\ [][NextDialogue]_vars

\* a conversation in text alone in which each service call resolves or
\* rejects, and the user submits again after a failure
NextRetry ==
  \/ AskSetQuestion
  \/ AskSetFollowUp
  \/ HandleSubmit(MaxTurns)
  \/ SubmitSearchResolves
  \/ AskSearchRejects
  \/ SubmitAnswerResolves
  \/ AskAnswerRejects
  \/ HandleFollowUpSubmit(MaxTurns)
  \/ FollowUpSearchResolves
  \/ FollowUpAnswerResolves

SpecRetry == Init /\ [][NextRetry]_vars

\* -------------------------------------------------------------- ExplainTab
Explanations == {<<"e1">>}
ExplainError == "AI service is currently unavailable. Please try again later."

\* everything outside ExplainTab and the notification of App
explainFrame ==
  <<exports, started, shown, uncaughtErrors, bodyContainers, textVars, askVars,
    authVars, researchVars>>

\* InputSection onChange: setTopic
ExplainSetTopic ==
  /\ ~explainTab.isLoading
  /\ \E t \in TypedTexts :
       /\ t # explainTab.topic
       /\ explainTab' = [explainTab EXCEPT !.topic = t]
  /\ UNCHANGED <<explainRequest, explainReaders, notification, explainFrame>>

\* handleImageUploadInternal of ExplainTab
ExplainImageUpload ==
  /\ ~explainTab.isLoading
  /\ \E f \in Files :
       /\ f \notin explainReaders
       /\ explainTab' = [explainTab EXCEPT !.imageFile = f]
       /\ explainReaders' = explainReaders \cup {f}
  /\ UNCHANGED <<explainRequest, notification, explainFrame>>

\* reader.onload: setImagePreview(result)
ExplainPreviewLoads ==
  /\ \E f \in explainReaders :
       /\ explainTab' = [explainTab EXCEPT !.imagePreview = DataUrl(f)]
       /\ explainReaders' = explainReaders \ {f}
  /\ UNCHANGED <<explainRequest, notification, explainFrame>>

\* the clear button of InputSection
ExplainClearImage ==
  /\ ~explainTab.isLoading
  /\ explainTab.imagePreview # << >>
  /\ explainTab' = ClearImage(explainTab)
  /\ UNCHANGED <<explainRequest, explainReaders, notification, explainFrame>>

\* handleSubmit of ExplainTab, lines 94-117, up to its first await; with the
\* preview loaded performWebSearch(topic, imageBase64 || undefined) is called
\* at once
ExplainSubmit ==
  /\ ~explainTab.isLoading
  /\ Trim(explainTab.topic) # << >> \/ explainTab.imageFile # NoFile
  /\ explainRequest.started < MaxExplains
  /\ LET fromPreview == explainTab.imageFile # NoFile /\ explainTab.imagePreview # << >>
         reads == explainTab.imageFile # NoFile /\ explainTab.imagePreview = << >>
         imageBase64 == IF fromPreview THEN Base64Of(explainTab.imagePreview)
                                       ELSE << >>
     IN /\ explainTab' =
             [explainTab EXCEPT !.isLoading = TRUE,
                                !.loadingMessage =
                                   IF fromPreview THEN "Analyzing image and topic..."
                                   ELSE IF reads THEN "Processing image..."
                                        ELSE "Analyzing your topic...",
                                !.optimizedQuery = << >>,
                                !.originalQuery = << >>,
                                !.explanation = << >>,
                                !.sources = << >>]
        /\ explainRequest' =
             [NoExplainRequest EXCEPT !.pc = IF reads THEN "readImage" ELSE "search",
                                      !.topic = explainTab.topic,
                                      !.file = explainTab.imageFile,
                                      !.fromPreview = fromPreview,
                                      !.imageBase64 = imageBase64,
                                      !.searchImage = imageBase64,
                                      !.started = explainRequest.started + 1]
  /\ UNCHANGED <<explainReaders, notification, explainFrame>>

\* line 114: await getImageBase64(imageFile) resolves; performWebSearch is
\* called
ExplainImageRead ==
  /\ explainRequest.pc = "readImage"
  /\ explainRequest' =
       [explainRequest EXCEPT !.pc = "search",
                              !.imageBase64 = getImageBase64(explainRequest.file),
                              !.searchImage = getImageBase64(explainRequest.file)]
  /\ UNCHANGED <<explainTab, explainReaders, notification, explainFrame>>

\* the catch block and the finally block of ExplainTab's handleSubmit
ExplainFails(message) ==
  /\ notification' = showNotification(message, "error")
  /\ explainTab' = StopLoading([explainTab EXCEPT !.explanation = << >>,
                                                  !.sources = << >>])
  /\ explainRequest' = [explainRequest EXCEPT !.pc = "failed", !.error = message]
  /\ UNCHANGED <<explainReaders, explainFrame>>

ExplainImageReadFails ==
  /\ explainRequest.pc = "readImage"
  /\ ExplainFails(ReadError)

\* lines 117-132: performWebSearch resolves and getExplanation is called
ExplainSearchResolves ==
  /\ explainRequest.pc = "search"
  /\ \E data \in SearchResponses :
       LET optimized == data.isOptimized /\ data.optimizedQuery # << >>
       IN /\ explainTab' =
               [explainTab EXCEPT
                  !.optimizedQuery = IF optimized THEN data.optimizedQuery ELSE @,
                  !.originalQuery =
                     IF optimized
                     THEN (IF data.originalQuery # << >> THEN data.originalQuery
                                                        ELSE explainRequest.topic)
                     ELSE @,
                  !.loadingMessage = "Generating detailed explanation..."]
          /\ explainRequest' =
               [explainRequest EXCEPT !.pc = "explain", !.webSearch = data,
                                      !.explainImage = explainRequest.imageBase64]
  /\ UNCHANGED <<explainReaders, notification, explainFrame>>

ExplainSearchRejects ==
  /\ explainRequest.pc = "search"
  /\ ExplainFails(SearchError)

\* lines 134-137 and the finally block
GetExplanationResolves ==
  /\ explainRequest.pc = "explain"
  /\ \E explanation \in Explanations, sources \in {<< >>, <<"s1">>} :
       explainTab' = StopLoading(ClearImage(
                       [explainTab EXCEPT !.explanation = explanation,
                                          !.sources = sources]))
  /\ explainRequest' = [explainRequest EXCEPT !.pc = "done"]
  /\ UNCHANGED <<explainReaders, notification, explainFrame>>

GetExplanationRejects ==
  /\ explainRequest.pc = "explain"
  /\ ExplainFails(ExplainError)

NextExplain ==
  \/ ExplainSetTopic
  \/ ExplainImageUpload
  \/ ExplainPreviewLoads
  \/ ExplainClearImage
  \/ ExplainSubmit
  \/ ExplainImageRead
  \/ ExplainImageReadFails
  \/ ExplainSearchResolves
  \/ ExplainSearchRejects
  \/ GetExplanationResolves
  \/ GetExplanationRejects

SpecExplain == Init /\ [][NextExplain]_vars

\* ------------------------------------------------------------- authService
\* The clock counts half days; new Date() reads it.
\* 1000 * 3600 * 24 milliseconds
DayLength == 2

\* everything outside authService
authFrame == <<exportVars, textVars, askVars, explainVars, researchVars>>

\* Math.floor(timeDiff / (1000 * 3600 * 24))
daysDiff(now, lastActive) == (now - lastActive) \div DayLength

\* update({ last_active: new Date().toISOString() }).eq('user_id', ...): the
\* result is not looked at, and a failed update leaves the row as it is
TouchLastActive(row, now, ok) ==
  IF ok /\ row.exists THEN [row EXCEPT !.last_active = now] ELSE row

\* the streak that updateStudyStreak computes from the row it has read
newStreak(row, now) ==
  IF daysDiff(now, row.last_active) = 1 THEN row.study_streak + 1
  ELSE IF daysDiff(now, row.last_active) = 0 THEN row.study_streak
       ELSE 1

\* updateStudyStreak: a failed select (or no row) throws into its own catch
updateStudyStreak(row, now, selectOk, updateOk) ==
  IF ~selectOk \/ ~row.exists \/ ~updateOk THEN row
  ELSE [row EXCEPT !.study_streak = newStreak(row, now), !.last_active = now]

\* time passes
Tick ==
  /\ clock < MaxClock
  /\ clock' = clock + 1
  /\ UNCHANGED <<profile, authEvent, authFrame>>

\* what an operation leaves behind: its kind, whether every call to the
\* service succeeded, the row before it and the time
AuthEvent(kind, clean) ==
  [kind |-> kind, clean |-> clean, before |-> profile, at |-> clock]

\* register: signUp, then the insert of the profile
Register ==
  /\ ~profile.exists
  /\ \E ok \in BOOLEAN :
       /\ profile' = IF ok THEN [exists |-> TRUE, last_active |-> clock,
                                 study_streak |-> 0]
                     ELSE profile
       /\ authEvent' = AuthEvent("register", ok)
  /\ UNCHANGED <<clock, authFrame>>

\* the two steps that login, recordStudySession and handleAuthCallback
\* share: the update of last_active, awaited, then updateStudyStreak
TouchThenUpdateStreak(row, now, touchOk, selectOk, updateOk) ==
  updateStudyStreak(TouchLastActive(row, now, touchOk), now, selectOk, updateOk)

\* login of a registered user; signInWithPassword may return an error
Login ==
  /\ profile.exists
  /\ \E signedIn, touchOk, selectOk, updateOk \in BOOLEAN :
       /\ profile' = IF signedIn
                     THEN TouchThenUpdateStreak(profile, clock, touchOk,
                                                selectOk, updateOk)
                     ELSE profile
       /\ authEvent' = AuthEvent("login", signedIn /\ touchOk /\ selectOk
                                            /\ updateOk)
  /\ UNCHANGED <<clock, authFrame>>

\* recordStudySession; the insert of the session may return an error
RecordStudySession ==
  /\ profile.exists
  /\ \E inserted, touchOk, selectOk, updateOk \in BOOLEAN :
       /\ profile' = IF inserted
                     THEN TouchThenUpdateStreak(profile, clock, touchOk,
                                                selectOk, updateOk)
                     ELSE profile
       /\ authEvent' = AuthEvent("session", inserted /\ touchOk /\ selectOk
                                              /\ updateOk)
  /\ UNCHANGED <<clock, authFrame>>

\* handleAuthCallback: without a session it throws; without a profile it
\* inserts one; else it does what login does
HandleAuthCallback ==
  /\ \E session, touchOk, selectOk, updateOk \in BOOLEAN :
       /\ profile' =
            IF ~session THEN profile
            ELSE IF ~profile.exists
                 THEN (IF touchOk
                       THEN [exists |-> TRUE, last_active |-> clock,
                             study_streak |-> 0]
                       ELSE profile)
                 ELSE TouchThenUpdateStreak(profile, clock, touchOk, selectOk,
                                            updateOk)
       /\ authEvent' = AuthEvent("callback", session /\ touchOk /\ selectOk
                                               /\ updateOk)
  /\ UNCHANGED <<clock, authFrame>>

NextAuth ==
  \/ Tick
  \/ Register
  \/ Login
  \/ RecordStudySession
  \/ HandleAuthCallback

SpecAuth == Init /\ [][NextAuth]_vars

\* ---------------------------------------------------------- DeepResearchTab
Problems == {<< >>, <<" ">>, <<"p1">>}

\* the ids of the steps of performDeepResearch and their answers
stepIds == <<"1", "2", "3">>
answers == << <<"a1">>, <<"a2">>, <<"a3">> >>

\* everything outside DeepResearchTab
researchFrame == <<exportVars, textVars, askVars, explainVars, authVars>>

\* { ...steps[i], status: 'thinking' } and { ...steps[i], answer: answers[i],
\* status: 'complete' }; a null answer is the empty text
ThinkingStep(i) == [id |-> stepIds[i], answer |-> << >>, status |-> "thinking"]
CompleteStep(i) == [id |-> stepIds[i], answer |-> answers[i], status |-> "complete"]

\* prevSteps.findIndex((s) => s.id === step.id), counted from 1; 0 for -1
RECURSIVE FindStep(_, _, _)
FindStep(steps, id, k) ==
  IF k > Len(steps) THEN 0
  ELSE IF steps[k].id = id THEN k
       ELSE FindStep(steps, id, k + 1)

\* every update appended
handleStepUpdateAppends(prevSteps, step) == Append(prevSteps, step)

\* handleStepUpdate: the step with the id is replaced, a new id is appended
handleStepUpdate(prevSteps, step) ==
  IF FindStep(prevSteps, step.id, 1) # 0
  THEN [prevSteps EXCEPT ![FindStep(prevSteps, step.id, 1)] = step]
  ELSE Append(prevSteps, step)

\* InputSection onChange: setProblem; the field is disabled while loading
ResearchSetProblem ==
  /\ ~researchTab.isLoading
  /\ \E q \in Problems :
       /\ q # researchTab.problem
       /\ researchTab' = [researchTab EXCEPT !.problem = q]
  /\ UNCHANGED <<researchRun, researchFrame>>

\* the button and Ctrl+Enter whatever isLoading is
CanStartResearchWhileLoading(tab) == Trim(tab.problem) # << >>

\* the button is disabled while isLoading || !problem.trim(), and
\* handleKeyDown calls handleSubmit only if problem.trim() && !isLoading
CanStartResearch(tab) == Trim(tab.problem) # << >> /\ ~tab.isLoading

\* handleSubmit up to its await: setIsLoading(true), setResearchSteps([]),
\* and performDeepResearch up to its first timer, which announces step 1
ResearchSubmit ==
  /\ CanStartResearch(researchTab)
  /\ researchRun.runs < MaxRuns
  /\ researchTab' =
       [researchTab EXCEPT !.isLoading = TRUE,
                           !.researchSteps = handleStepUpdate(<< >>, ThinkingStep(1))]
  /\ researchRun' = [pc |-> "waiting", index |-> 1, runs |-> researchRun.runs + 1]
  /\ UNCHANGED researchFrame

\* the timer of step i fires: the step is complete; the next step is
\* announced, or the loop ends and performDeepResearch returns
ResearchTimer ==
  /\ researchRun.pc = "waiting"
  /\ LET i == researchRun.index
         completed == handleStepUpdate(researchTab.researchSteps, CompleteStep(i))
     IN IF i < Len(stepIds)
        THEN /\ researchTab' =
                  [researchTab EXCEPT
                     !.researchSteps = handleStepUpdate(completed, ThinkingStep(i + 1))]
             /\ researchRun' = [researchRun EXCEPT !.index = i + 1]
        ELSE /\ researchTab' = [researchTab EXCEPT !.researchSteps = completed]
             /\ researchRun' = [researchRun EXCEPT !.pc = "returning"]
  /\ UNCHANGED researchFrame

\* the await of handleSubmit resolves: the finally block, setIsLoading(false)
ResearchSettles ==
  /\ researchRun.pc = "returning"
  /\ researchTab' = [researchTab EXCEPT !.isLoading = FALSE]
  /\ researchRun' = [researchRun EXCEPT !.pc = "done"]
  /\ UNCHANGED researchFrame

\* ------------------------------------------------------------------ the tabs
\* App renders one tab at a time and a tab's state lives from its mount to
\* its unmount: a behaviour is the life of one mounted tab, and a tab is
\* entered only while the other two hold their initial state.
AskUnused == askTab = AskTabInitial /\ askRequest = NoRequest
ExplainUnused == explainTab = ExplainTabInitial /\ explainRequest = NoExplainRequest
ResearchUnused == researchTab = ResearchTabInitial /\ researchRun = NoResearchRun

NextTabs ==
  \/ (ExplainUnused /\ ResearchUnused /\ AskSetQuestion)
  \/ AskSetFollowUp
  \/ HandleSubmit(MaxTurns)
  \/ SubmitSearchResolves
  \/ AskSearchRejects
  \/ SubmitAnswerResolves
  \/ AskAnswerRejects
  \/ HandleFollowUpSubmit(MaxTurns)
  \/ FollowUpSearchResolves
  \/ FollowUpAnswerResolves
  \/ (AskUnused /\ ResearchUnused /\ ExplainSetTopic)
  \/ ExplainSubmit
  \/ ExplainSearchResolves
  \/ ExplainSearchRejects
  \/ GetExplanationResolves
  \/ GetExplanationRejects
  \/ (AskUnused /\ ExplainUnused /\ ResearchSetProblem)
  \/ ResearchSubmit
  \/ ResearchTimer
  \/ ResearchSettles

SpecTabs == Init /\ [][NextTabs]_vars

\* --------------------------------------------------------------- properties
Settled(e) == exports[e].status \in {"resolved", "rejected"}

FootersComplete(doc) ==
  /\ Len(doc.footers) = doc.pages
  /\ \A i \in 1..doc.pages :
       /\ Cardinality({k \in 1..Len(doc.footers) : doc.footers[k].page = i}) = 1
       /\ \A k \in 1..Len(doc.footers) :
            doc.footers[k].page = i =>
              doc.footers[k].index = i /\ doc.footers[k].total = doc.pages

LogIndex(doc, op) ==
  LET S == {k \in 1..Len(doc.log) : doc.log[k] = op}
  IN IF S = {} THEN 0 ELSE Min(S)

\* C1: once rasterization has succeeded and onload has found the image
\* higher than the space left on the first page, the image is not embedded
\* and the text path has run: the text is drawn, the footers are stamped and
\* the document is saved.
C1_OversizeImageFallsBackToText ==
  \A e \in Export :
    (exports[e].raster = "ok" /\ exports[e].onloadFired
       /\ ~ImageFits(exports[e].imgHeight))
    => /\ exports[e].doc.image = 0
       /\ LogIndex(exports[e].doc, "text") > 0
       /\ Len(exports[e].doc.lines) = exports[e].content
       /\ FootersComplete(exports[e].doc)
       /\ exports[e].doc.saved = 1

\* C2: every export that was started eventually resolves or rejects.
C2_ExportEventuallySettles ==
  \A e \in Export : (exports[e].status # "idle") ~> Settled(e)

\* C3: when rasterization has failed and the document library has not,
\* the export is resolved and the saved document holds the header, every
\* line of the text, no image, and the footers.
C3_RasterFailureUsesTextPath ==
  \A e \in Export :
    (exports[e].raster = "failed" /\ exports[e].fault = "none")
    => /\ exports[e].status = "resolved"
       /\ exports[e].doc.header
       /\ exports[e].doc.image = 0
       /\ LogIndex(exports[e].doc, "text") > 0
       /\ Len(exports[e].doc.lines) = exports[e].content
       /\ FootersComplete(exports[e].doc)
       /\ exports[e].doc.saved = 1

C3_Witness ==
  \E e \in Export :
    /\ exports[e].raster = "failed"
    /\ exports[e].status = "resolved"
    /\ Len(exports[e].doc.lines) = exports[e].content
    /\ exports[e].doc.saved = 1

\* C4: after the text path, every line of the text is drawn on one of the
\* document's pages, at a height inside that page.
C4_TextLinesInsidePages ==
  \A e \in Export :
    LogIndex(exports[e].doc, "text") > 0
    => /\ Len(exports[e].doc.lines) = exports[e].content
       /\ \A i \in 1..Len(exports[e].doc.lines) :
            /\ exports[e].doc.lines[i].page \in 1..exports[e].doc.pages
            /\ exports[e].doc.lines[i].y <= pageHeight

\* C5: a saved document has, on each of its N pages, exactly one footer,
\* 'Page i of N' on page i, and the footers were stamped after the content
\* and before the save.
C5_FootersOnEveryPage ==
  \A e \in Export :
    exports[e].doc.saved >= 1
    => /\ FootersComplete(exports[e].doc)
       /\ LogIndex(exports[e].doc, "footers") > LogIndex(exports[e].doc, "text")
       /\ LogIndex(exports[e].doc, "footers") > LogIndex(exports[e].doc, "image")
       /\ LogIndex(exports[e].doc, "footers") < LogIndex(exports[e].doc, "save")
       /\ (LogIndex(exports[e].doc, "text") > 0
             \/ LogIndex(exports[e].doc, "image") > 0)

C5_Witness ==
  \E e \in Export :
    /\ exports[e].doc.saved = 1
    /\ exports[e].doc.pages >= 1
    /\ Len(exports[e].doc.footers) = exports[e].doc.pages

\* C6: a rejected export has the failure notification and not the success
\* notification, and the success notification is shown only for an export
\* that has resolved.
C6_FailureIsNotified ==
  \A e \in Export :
    /\ exports[e].status = "rejected"
         => /\ "Failed to download PDF." \in shown[e]
            /\ "PDF downloaded successfully!" \notin shown[e]
    /\ "PDF downloaded successfully!" \in shown[e]
         => exports[e].status = "resolved"

\* C7: a document is saved at most once, the save is its last operation,
\* made after the header, the content and the footers, on an export that
\* resolves; an export that rejected has saved nothing.
C7_NoPartialSuccess ==
  \A e \in Export :
    /\ exports[e].doc.saved <= 1
    /\ exports[e].doc.saved = 1
         => /\ exports[e].status = "resolved"
            /\ exports[e].doc.log[Len(exports[e].doc.log)] = "save"
            /\ exports[e].doc.header
            /\ (exports[e].doc.image > 0 \/ LogIndex(exports[e].doc, "text") > 0)
            /\ FootersComplete(exports[e].doc)
    /\ exports[e].status = "rejected" => exports[e].doc.saved = 0

C7_Witness ==
  \E e \in Export :
    /\ exports[e].status = "rejected"
    /\ exports[e].fault = "footer"
    /\ exports[e].doc.log # << >>
    /\ exports[e].doc.saved = 0

\* '<br>' and '</p><p>' read back as the line breaks they stand for
RECURSIVE Unbreak(_)
Unbreak(h) ==
  IF h = << >> THEN << >>
  ELSE (IF Head(h) = "<br>" THEN <<"\n">>
        ELSE IF Head(h) = "</p><p>" THEN <<"\n", "\n">>
        ELSE <<Head(h)>>) \o Unbreak(Tail(h))

Count(s, c) == Cardinality({k \in 1..Len(s) : s[k] = c})

\* the whole text is one fenced block: three ticks, an optional language,
\* a body without ticks, three ticks
IsFenced(t) ==
  /\ Len(t) >= 6
  /\ RunAt(t, 1, tick, 3)
  /\ RunAt(t, Len(t) - 2, tick, 3)
  /\ Count(t, tick) = 6

FenceBody(t) == SubSeq(t, 4 + WordRun(t, 4), Len(t) - 3)

\* C8: the body of a fenced block is, trimmed, the content of the code
\* element that is rendered for it, character for character.
C8_FenceBodyVerbatim ==
  (rendered /\ IsFenced(rawText))
  => /\ Len(nodes) = 1
     /\ \E a, b \in 1..Len(nodes[1].html) :
          /\ a < b
          /\ nodes[1].html[a] = "<code>"
          /\ nodes[1].html[b] = "</code>"
          /\ Unbreak(SubSeq(nodes[1].html, a + 1, b - 1)) = Trim(FenceBody(rawText))

\* a well-formed table block with at least one data line, an empty line, a
\* paragraph
IsTableThenProse(t) ==
  \E c \in 1..MaxCols, r \in 1..MaxRows :
    t = TableBlock(c, r) \o <<"\n", "x">>

\* C9: a table block followed by a paragraph renders as exactly a table
\* node and a text node; the table has one header per header cell and one
\* row per data line, and no pipe of the table block is in the text node.
C9_TableThenProse ==
  (rendered /\ IsTableThenProse(rawText))
  => /\ Len(nodes) = 2
     /\ nodes[1].kind = "table"
     /\ nodes[2].kind = "text"
     /\ \E c \in 1..MaxCols, r \in 1..MaxRows :
          /\ rawText = TableBlock(c, r) \o <<"\n", "x">>
          /\ Len(nodes[1].headers) = c
          /\ Len(nodes[1].rows) = r
     /\ Count(nodes[2].html, "|") = 0

\* the only markup characters of the text are one ** without a closing **,
\* or one opening fence without a closing fence
HasUnmatchedDelimiter(t) ==
  /\ Count(t, "|") = 0
  /\ \/ /\ Count(t, "*") = 2 /\ IndexOfRun(t, 1, "*", 2) > 0
        /\ Count(t, tick) = 0
     \/ /\ Count(t, tick) = 3 /\ IndexOfRun(t, 1, tick, 3) > 0
        /\ Count(t, "*") = 0

\* C10: a text whose only markup is an unmatched delimiter is rendered as
\* one text node whose content, line breaks aside, is the text itself.
C10_UnmatchedDelimiterLiteral ==
  (rendered /\ HasUnmatchedDelimiter(rawText))
  => /\ Len(nodes) = 1
     /\ nodes[1].kind = "text"
     /\ Unbreak(SubSeq(nodes[1].html, 2, Len(nodes[1].html) - 1)) = rawText

\* C11: the text path leaves every symbol of symbolReplacements as it is:
\* the normalized text holds each of them as often as the content does.
C11_SymbolsUnchanged ==
  normalized => \A c \in Symbols : Count(pdfText, c) = Count(rawText, c)

CalloutLabel(m) ==
  IF m = "[!NOTE]" THEN "NOTE: "
  ELSE IF m = "[!TIP]" THEN "TIP: " ELSE "DEFINITION: "

\* C12: on the text path a callout of the content is exported as a
\* paragraph with its label, a highlight as its text between asterisks, and
\* no callout marker and no highlight marker is left in the exported text.
C12_RawMarkersNormalized ==
  normalized
  => /\ \A m \in CalloutMarkers :
          rawText = <<m, "x">>
          => /\ Count(pdfText, m) = 0
             /\ \E k \in 1..(Len(pdfText) - 1) :
                  pdfText[k] = CalloutLabel(m) /\ pdfText[k + 1] = "x"
     /\ rawText = <<"=", "=", "x", "=", "=">> => pdfText = <<"*", "x", "*">>

\* the failures of the document library that the model injects
LibraryFaults == {"setup", "text", "footer", "save", "addImage"}

\* C13: an export of null, undefined or empty content that settles, the
\* document library not failing, has resolved, with a saved document that
\* holds the header, the footers and no line of text.
C13_EmptyContentResolves ==
  \A e \in Export :
    (exports[e].content \in {NullContent, 0} /\ Settled(e)
       /\ exports[e].fault \notin LibraryFaults)
    => /\ exports[e].status = "resolved"
       /\ exports[e].doc.header
       /\ exports[e].doc.lines = << >>
       /\ FootersComplete(exports[e].doc)
       /\ exports[e].doc.saved = 1

\* the text that a reader sees: line breaks read back, the tags left out
VisibleText(html) == StripTags(Unbreak(html), 1)

\* letters, hyphens and line breaks only
IsPlain(t) == t # << >> /\ \A k \in 1..Len(t) : t[k] \in {"x", "A", "-", "\n"}

\* some capital letter, with the lowercase letters after it, is followed by
\* a plus or a minus sign
HasIonPattern(t) ==
  \E i \in 1..Len(t) :
    LET c == i + 1 + LowercaseRun(t, i + 1)
    IN t[i] \in Capitals /\ c <= Len(t) /\ t[c] \in {"+", "-"}

C16_SubmitRejectionNotified ==
  [][(askRequest.kind = "submit" /\ askRequest.pc \in {"search", "ask"}
        /\ askRequest'.pc = "failed")
     => /\ notification' =
             showNotification(IF askRequest.pc = "search" THEN SearchError
                                                          ELSE AskError, "error")
        /\ \A k \in (askRequest.before.count + 1)..Len(askTab'.messages) :
             askTab'.messages[k].type # "ai"
        /\ askTab'.lastResponse = askRequest.before.lastResponse
        /\ askTab'.sources = askRequest.before.sources
        /\ ~askTab'.isLoading]_vars

C16_Witness ==
  /\ askRequest.kind = "submit"
  /\ askRequest.pc = "failed"
  /\ askRequest.error = AskError
  /\ notification = showNotification(AskError, "error")
  /\ Len(askTab.messages) = 2

\* C17: the step that completes a successful handleSubmit leaves in messages,
\* after the earlier ones, the user's question and then the AI response (a
\* system message may stand between them), lastResponse and sources equal to
\* the response's, the question and the image cleared, showFollowUp true and
\* isLoading false.
C17_SubmitSuccess ==
  [][(askRequest.kind = "submit" /\ askRequest.pc = "ask"
        /\ askRequest'.pc = "done")
     => LET m == askTab'.messages
            n == Len(m)
            b == askRequest.before.count
            r == askRequest'.response
        IN /\ n >= b + 2
           /\ SubSeq(m, 1, n - 1) = askTab.messages
           /\ m[b + 1].type = "user" /\ m[b + 1].text = askRequest.prompt
           /\ m[n].type = "ai" /\ m[n].text = r.response
           /\ \A k \in (b + 2)..(n - 1) : m[k].type = "system"
           /\ askTab'.lastResponse = r.response
           /\ askTab'.sources = r.sources
           /\ askTab'.question = << >>
           /\ askTab'.imageFile = NoFile
           /\ askTab'.imagePreview = << >>
           /\ askTab'.showFollowUp
           /\ ~askTab'.isLoading]_vars

C17_Witness ==
  /\ askRequest.kind = "submit"
  /\ askRequest.pc = "done"
  /\ askRequest.imageBase64 # << >>
  /\ Len(askTab.messages) = 3
  /\ askTab.lastResponse = <<"a1">>
  /\ askTab.showFollowUp

\* the user and AI messages as turns of a conversation, in their order
RECURSIVE MessageTurns(_)
MessageTurns(messages) ==
  IF messages = << >> THEN << >>
  ELSE (IF Head(messages).type = "user"
        THEN <<[role |-> "user", content |-> Head(messages).text]>>
        ELSE IF Head(messages).type = "ai"
             THEN <<[role |-> "model", content |-> Head(messages).text]>>
             ELSE << >>)
       \o MessageTurns(Tail(messages))

ContextTurns(context) ==
  [k \in 1..Len(context) |->
     [role |-> context[k].role, content |-> context[k].content]]

\* C18: in a conversation whose service calls all resolve, the context
\* passed to askQuestion is the turns of all the messages so far, the
\* current user message last; and a completed follow-up has appended its
\* user message and its AI response after all the earlier messages.
C18_ContextIsHistory ==
  /\ askRequest.pc = "ask"
       => ContextTurns(askRequest.newContext) = MessageTurns(askTab.messages)
  /\ (askRequest.pc = "done" /\ askRequest.kind = "followUp")
       => LET m == askTab.messages
              b == askRequest.before.count
          IN /\ Len(m) = b + 2
             /\ \A k \in 1..Len(m) : m[k].id = k
             /\ m[b + 1].type = "user" /\ m[b + 1].text = askRequest.prompt
             /\ m[b + 2].type = "ai" /\ m[b + 2].text = askRequest.response.response

C18_Witness ==
  /\ askRequest.kind = "followUp"
  /\ askRequest.pc = "ask"
  /\ Len(askRequest.newContext) = 3
  /\ askRequest.newContext[1].image # << >>

\* C19: once ExplainTab, submitted with an image whose preview is loaded,
\* has called both services, the image passed to each of them is the value
\* that getImageBase64 returns for the attached file.
C19_ImageFromGetImageBase64 ==
  (explainRequest.fromPreview /\ explainRequest.pc = "explain")
  => /\ explainRequest.searchImage = getImageBase64(explainRequest.file)
     /\ explainRequest.explainImage = getImageBase64(explainRequest.file)

\* C20: a call of handleMessageFeedbackInternal for an id is the first for
\* that id, sets showFeedback to false on the one message with that id,
\* for which no feedback button is rendered afterwards, and changes no other
\* message and no other field.
C20_FeedbackOnce ==
  [][\A id \in MessageIds :
       feedbackCount'[id] # feedbackCount[id]
       => /\ feedbackCount[id] = 0
          /\ feedbackCount'[id] = 1
          /\ Len(askTab'.messages) = Len(askTab.messages)
          /\ Cardinality({k \in 1..Len(askTab.messages) :
                            askTab.messages[k].id = id}) = 1
          /\ \A k \in 1..Len(askTab.messages) :
               IF askTab.messages[k].id = id
               THEN /\ askTab'.messages[k] =
                         [askTab.messages[k] EXCEPT !.showFeedback = FALSE]
                    /\ ~FeedbackButtons(askTab'.messages[k])
               ELSE askTab'.messages[k] = askTab.messages[k]]_vars

C20_Witness ==
  \E k \in 1..Len(askTab.messages) :
    /\ Len(askTab.messages) >= 2
    /\ askTab.messages[k].type = "ai"
    /\ feedbackCount[askTab.messages[k].id] = 1
    /\ ~FeedbackButtons(askTab.messages[k])

\* the opening tags of the three callout blocks
CalloutOpens ==
  {"<div class=note>", "<div class=annotation>", "<div class=definition>"}

\* C21: a callout block ends at the next callout marker, whichever kind it
\* is: in the markup of a rendered text no callout block holds the opening
\* tag of another callout block before its own closing tag.
C21_CalloutsNotNested ==
  rendered
  => \A n \in 1..Len(nodes) :
       \A i \in 1..Len(nodes[n].html) :
         nodes[n].html[i] \in CalloutOpens
         => LET j == IndexOf(nodes[n].html, i + 1, "</div>")
            IN /\ j > 0
               /\ \A k \in (i + 1)..(j - 1) : nodes[n].html[k] \notin CalloutOpens

\* the unit that a way of writing it stands for
UnitOf(u) ==
  IF u = <<"m", "/", "s", "^", "2">> THEN <<"m", "/", "s", superTwo>>
  ELSE IF u = <<"k", "g", "/", "m", "^", "3">>
       THEN <<"k", "g", "/", "m", superThree>>
       ELSE u

\* the markup of a number followed by one unit span
NumberWithUnit(number, unit) ==
  <<"<p>">> \o number \o <<" ", "<span class=physics-unit>">> \o unit
  \o <<"</span>", "</p>">>

\* C22: a number followed by a unit of the list is rendered as the number
\* and one unit span that holds exactly the unit; m/s^2 and m/s with a
\* superscript two give the one span of metres per second squared.
C22_OneUnitSpan ==
  rendered
  => \A u \in UnitForms :
       rawText \in {<<"5">> \o u, <<"5", " ">> \o u}
       => /\ Len(nodes) = 1
          /\ nodes[1].html = NumberWithUnit(<<"5">>, UnitOf(u))

\* C23: after a login, a recorded study session or an OAuth callback of a
\* user with a profile, every call to the service having succeeded, the
\* streak is the one that follows from the last_active stored before the
\* operation: one more after one day, the same on the same day, 1 after
\* more than one day.
C23_StreakFromStoredLastActive ==
  (authEvent.kind \in {"login", "session", "callback"} /\ authEvent.clean
     /\ authEvent.before.exists)
  => profile.study_streak = newStreak(authEvent.before, authEvent.at)

\* the roles of a context are user, model, user, model, ...
Alternates(context) ==
  \A k \in 1..Len(context) :
    context[k].role = (IF k % 2 = 1 THEN "user" ELSE "model")

\* C24: after any submissions and follow-ups of AskTab, failed ones
\* included, conversationContext alternates user, model, user, model, ...
\* from a user turn on, and so does the context sent with a request.
C24_ContextAlternates ==
  /\ Alternates(askTab.conversationContext)
  /\ askRequest.pc = "ask" => Alternates(askRequest.newContext)

\* the preview of a tab is that of the file the tab holds
PreviewOfSelectedFile(tab) ==
  tab.imagePreview # << >>
    => (tab.imageFile # NoFile /\ tab.imagePreview = DataUrl(tab.imageFile))

\* the image data of a request is that of the file selected at its start,
\* taken from the preview or read again
SendsSelectedFile(request) ==
  request.imageBase64 # << >>
    => (request.file # NoFile
        /\ request.imageBase64 \in {Base64Of(DataUrl(request.file)),
                                    getImageBase64(request.file)})

\* C25: in AskTab and ExplainTab, however selections, clearings, submissions
\* and FileReader completions interleave, imagePreview is set only while
\* imageFile is, and the preview shown and the image data sent belong to
\* the file currently selected.
C25_PreviewOfCurrentFile ==
  /\ PreviewOfSelectedFile(askTab)
  /\ PreviewOfSelectedFile(explainTab)
  /\ SendsSelectedFile(askRequest)
  /\ SendsSelectedFile(explainRequest)

\* the calls of htmlToImage that have not returned yet
Rasterizing == {e \in DOMAIN exports : exports[e].status = "rasterizing"}

\* C26: every container that htmlToImage appends to document.body is
\* removed before htmlToImage returns, whether html2canvas resolves or
\* throws: the containers attached are those of the calls still running,
\* and none remains once the exports are over.
C26_ContainersRemoved ==
  bodyContainers = Cardinality(Rasterizing)

\* two table blocks, each with a data row, and a paragraph between them
IsTableProseTable(t) ==
  \E c1 \in 1..MaxCols, c2 \in 1..MaxCols, r1 \in 1..MaxRows, r2 \in 1..MaxRows :
    t = TableBlock(c1, r1) \o <<"x", "\n">> \o TableBlock(c2, r2)

\* the places of the table nodes
TableNodesAt == {k \in 1..Len(nodes) : nodes[k].kind = "table"}

\* the places of the text nodes that hold the paragraph and no pipe
ProseNodesAt ==
  {k \in 1..Len(nodes) : /\ nodes[k].kind = "text"
                         /\ Count(nodes[k].html, "x") > 0
                         /\ Count(nodes[k].html, "|") = 0}

\* C27: processOutputText emits its nodes in source order: of two table
\* blocks with prose between them, the first table's node comes before the
\* node of the prose and the second table's node after it, and there is
\* one table node for each table block.
C27_NodesInSourceOrder ==
  (rendered /\ IsTableProseTable(rawText))
  => /\ Cardinality(TableNodesAt) = 2
     /\ \E p \in ProseNodesAt :
          \E i \in TableNodesAt, j \in TableNodesAt : i < p /\ p < j

\* a request chain of the tab has started and has not settled
AskInFlight == askRequest.pc \notin {"idle", "done", "failed"}
ExplainInFlight == explainRequest.pc \notin {"idle", "done", "failed"}
ResearchInFlight == researchRun.pc \in {"waiting", "returning"}

\* C28: in each tab a submission starts only while isLoading is false and
\* no chain of the tab is in flight, whether it comes from the button, from
\* Ctrl+Enter or from the follow-up control; isLoading is true exactly
\* while the chain is in flight, so it is false again once the chain has
\* settled.
C28_OneChainPerTab ==
  [][/\ askRequest'.started # askRequest.started
          => (~askTab.isLoading /\ ~AskInFlight)
     /\ explainRequest'.started # explainRequest.started
          => (~explainTab.isLoading /\ ~ExplainInFlight)
     /\ researchRun'.runs # researchRun.runs
          => (~researchTab.isLoading /\ ~ResearchInFlight)
     /\ (askTab.isLoading <=> AskInFlight)'
     /\ (explainTab.isLoading <=> ExplainInFlight)'
     /\ (researchTab.isLoading <=> ResearchInFlight)']_vars

\* a research run is in flight, the problem is still in the field and
\* another run is within the bound: only isLoading keeps it from starting
C28_Witness ==
  /\ researchRun.pc = "waiting"
  /\ researchTab.isLoading
  /\ Trim(researchTab.problem) # << >>
  /\ researchRun.runs < MaxRuns

\* the steps of the tab: no id twice, in the order of their announcement,
\* at most one of them thinking, and after the run all of them complete
\* with an answer and isLoading false
StepsWellFormed ==
  LET steps == researchTab.researchSteps
  IN /\ \A i \in 1..Len(steps), j \in 1..Len(steps) :
          i # j => steps[i].id # steps[j].id
     /\ Len(steps) <= Len(stepIds)
     /\ \A k \in 1..Len(steps) : steps[k].id = stepIds[k]
     /\ Cardinality({k \in 1..Len(steps) : steps[k].status = "thinking"}) <= 1
     /\ researchRun.pc = "done"
          => /\ ~researchTab.isLoading
             /\ Len(steps) = Len(stepIds)
             /\ \A k \in 1..Len(steps) :
                  steps[k].status = "complete" /\ steps[k].answer # << >>

\* C29: during a deep-research run researchSteps never holds an id twice
\* and keeps the steps in the order of their announcement; a step goes from
\* thinking to complete and never back; at most one step is thinking; when
\* the run has ended every step is complete with an answer and isLoading is
\* false.
C29_StepsInOrder ==
  [][/\ StepsWellFormed'
     /\ researchRun'.runs = researchRun.runs
          => \A k \in 1..Len(researchTab.researchSteps) :
               /\ k <= Len(researchTab'.researchSteps)
               /\ researchTab'.researchSteps[k].id = researchTab.researchSteps[k].id
               /\ researchTab.researchSteps[k].status = "complete"
                    => researchTab'.researchSteps[k].status = "complete"]_vars

\* a run has ended with its three steps
C29_Witness ==
  /\ researchRun.pc = "done"
  /\ Len(researchTab.researchSteps) = Len(stepIds)

\* a text of letters, < and > that holds a <
IsComparison(t) ==
  /\ \A k \in 1..Len(t) : t[k] \in {"x", "<", ">"}
  /\ \E k \in 1..Len(t) : t[k] = "<"

\* C30: processPdfText deletes only markup: a raw answer without any tag
\* comes out character for character, and the text between a < and a
\* later > of the answer is kept.
C30_OnlyMarkupDeleted ==
  (normalized /\ IsComparison(rawText)) => pdfText = rawText

====
